---- MODULE Spec2Model ----
(***************************************************************************)
(* A model of the streaming query engine of src/xml_lib: the pass          *)
(* controller (XmlDriver::DoPasses, XmlParser::Reset), the row pipeline    *)
(* (XmlQuery), the value algebra (XmlValue) and the tag matcher            *)
(* (XmlParser::Parse, XmlMatcher, XmlPath).                                *)
(***************************************************************************)
EXTENDS Integers, Sequences, FiniteSets, TLC

(***************************************************************************)
(* Bounds of the model.                                                    *)
(***************************************************************************)
\* The number of rows (records) of an input document.
MaxRows == 3

(***************************************************************************)
(* Strings are sequences of characters; a character is a one-character     *)
(* string.  CharCode is the character's code, which strcmp compares.       *)
(***************************************************************************)
Whitespace == {" ", "\t", "\r", "\n"}

Digits == {"0", "1", "2", "3", "4", "5", "6", "7", "8", "9"}

CharCode(c) ==
    CASE c = "\t" -> 9  [] c = "\n" -> 10 [] c = "\r" -> 13 [] c = " " -> 32
      [] c = "-" -> 45 [] c = "." -> 46 [] c = ":" -> 58
      [] c = "0" -> 48 [] c = "1" -> 49 [] c = "2" -> 50 [] c = "3" -> 51
      [] c = "4" -> 52 [] c = "5" -> 53 [] c = "6" -> 54 [] c = "7" -> 55
      [] c = "8" -> 56 [] c = "9" -> 57
      [] c = "a" -> 97 [] c = "b" -> 98 [] c = "c" -> 99 [] c = "e" -> 101
      [] c = "f" -> 102 [] c = "l" -> 108 [] c = "r" -> 114 [] c = "s" -> 115
      [] c = "t" -> 116 [] c = "u" -> 117
      [] c = "x" -> 120 [] c = "y" -> 121

\* strcmp(s1, s2): the difference of the first characters that differ, the
\* end of a string counting as the character 0.
RECURSIVE strcmp(_, _)
strcmp(s1, s2) ==
    IF s1 = <<>> /\ s2 = <<>> THEN 0
    ELSE IF s1 = <<>> THEN 0 - CharCode(Head(s2))
    ELSE IF s2 = <<>> THEN CharCode(Head(s1))
    ELSE IF Head(s1) # Head(s2) THEN CharCode(Head(s1)) - CharCode(Head(s2))
    ELSE strcmp(Tail(s1), Tail(s2))

\* The first loop of TrimWhitespace(std::string&): erase the leading blanks.
RECURSIVE TrimLeading(_)
TrimLeading(str) ==
    IF str # <<>> /\ Head(str) \in Whitespace THEN TrimLeading(Tail(str)) ELSE str

\* The second loop of TrimWhitespace(std::string&): `end` walks back from the
\* last character while it is a space, a tab or a line feed; the carriage
\* return is tested on *beg, the first character, which the first loop has
\* made a non-blank.
RECURSIVE TrimTrailing(_)
TrimTrailing(str) ==
    IF str # <<>> /\ (str[Len(str)] = " " \/ str[Len(str)] = "\t"
                      \/ str[1] = "\r" \/ str[Len(str)] = "\n")
    THEN TrimTrailing(SubSeq(str, 1, Len(str) - 1))
    ELSE str

TrimWhitespace(str) == TrimTrailing(TrimLeading(str))

(***************************************************************************)
(* Doubles.  A finite double is a fraction num/den in lowest terms; NaN,   *)
(* DBL_MIN (the least positive normal double, below every positive         *)
(* fraction of the model) and DBL_MAX are values of their own.             *)
(***************************************************************************)
RECURSIVE Gcd(_, _)
Gcd(a, b) == IF b = 0 THEN a ELSE Gcd(b, a % b)

Abs(n) == IF n < 0 THEN 0 - n ELSE n

Rat(n, d) ==
    LET s == IF d < 0 THEN 0 - 1 ELSE 1
        g == Gcd(Abs(n), Abs(d))
    IN  [cls |-> "fin", num |-> (s * n) \div g, den |-> (s * d) \div g]

Fin(n) == [cls |-> "fin", num |-> n, den |-> 1]

NaN == [cls |-> "nan", num |-> 0, den |-> 1]

DBL_MIN == [cls |-> "dblmin", num |-> 0, den |-> 1]

DBL_MAX == [cls |-> "dblmax", num |-> 0, den |-> 1]

\* A double below DBL_MIN and above 0: the bytes of a positive integer
\* below 2^52 read as a double.
Subnormal == [cls |-> "subnormal", num |-> 0, den |-> 1]

\* a < b on doubles: false when either is NaN.
RealLess(a, b) ==
    CASE a.cls = "nan" \/ b.cls = "nan" -> FALSE
      [] a.cls = "fin" /\ b.cls = "fin" -> a.num * b.den < b.num * a.den
      [] a.cls = "fin" /\ b.cls = "dblmin" -> a.num <= 0
      [] a.cls = "dblmin" /\ b.cls = "fin" -> b.num > 0
      [] a.cls = "fin" /\ b.cls = "dblmax" -> TRUE
      [] a.cls = "dblmin" /\ b.cls = "dblmax" -> TRUE
      [] OTHER -> FALSE

\* a == b on doubles: false when either is NaN.
RealEq(a, b) == a.cls # "nan" /\ b.cls # "nan" /\ a = b

RealAdd(a, b) ==
    CASE a.cls = "nan" \/ b.cls = "nan" -> NaN
      [] a.cls = "fin" /\ b.cls = "fin" ->
            Rat(a.num * b.den + b.num * a.den, a.den * b.den)

RealNeg(a) ==
    CASE a.cls = "nan" -> NaN
      [] a.cls = "fin" -> Rat(0 - a.num, a.den)

\* a / b for b # 0.0.
RealQuot(a, b) ==
    CASE a.cls = "nan" \/ b.cls = "nan" -> NaN
      [] a.cls = "fin" /\ b.cls = "fin" -> Rat(a.num * b.den, a.den * b.num)

\* __int64_t(d): the fraction truncated toward zero.
RealToInt(a) ==
    CASE a.cls = "fin" ->
            IF a.num >= 0 THEN a.num \div a.den ELSE 0 - ((0 - a.num) \div a.den)
      [] a.cls \in {"dblmin", "subnormal"} -> 0

(***************************************************************************)
(* strtod and strtoll on the strings of the model: leading blanks, an      *)
(* optional minus sign, decimal digits; 0 when no digits follow.           *)
(***************************************************************************)
DigitValue(c) == CharCode(c) - CharCode("0")

RECURSIVE ParseDigits(_, _)
ParseDigits(s, acc) ==
    IF s # <<>> /\ Head(s) \in Digits
    THEN ParseDigits(Tail(s), 10 * acc + DigitValue(Head(s)))
    ELSE acc

ParseInteger(s) ==
    LET t == TrimLeading(s)
    IN  IF t # <<>> /\ Head(t) = "-"
        THEN 0 - ParseDigits(Tail(t), 0)
        ELSE ParseDigits(t, 0)

ParseReal(s) == Fin(ParseInteger(s))

(***************************************************************************)
(* XmlValue: the type tag, the string and the members of the union; the    *)
(* members a constructor does not set are zero.                            *)
(***************************************************************************)
XmlTypes == {"String", "Real", "Integer", "DateTime", "Boolean", "Unknown"}

\* The position of a type in enum XmlType, which orders values of different
\* types and which ConstrainType minimises.
TypeRank(t) ==
    CASE t = "String" -> 0 [] t = "Real" -> 1 [] t = "Integer" -> 2
      [] t = "DateTime" -> 3 [] t = "Boolean" -> 4 [] t = "Unknown" -> 5

ConstrainType(t1, t2) == IF TypeRank(t1) <= TypeRank(t2) THEN t1 ELSE t2

DefaultValue ==
    [type |-> "Unknown", sval |-> <<>>, rval |-> Fin(0), ival |-> 0, bval |-> FALSE]

StringValue(s) == [DefaultValue EXCEPT !.type = "String", !.sval = s]

RealValue(r) == [DefaultValue EXCEPT !.type = "Real", !.rval = r]

IntegerValue(i) == [DefaultValue EXCEPT !.type = "Integer", !.ival = i]

BooleanValue(b) == [DefaultValue EXCEPT !.type = "Boolean", !.bval = b]

\* XmlUtils::ToString with integers: the digits of n.
RECURSIVE NatToString(_)
NatToString(n) ==
    LET d == CHOOSE c \in Digits : DigitValue(c) = n % 10
    IN  IF n < 10 THEN <<d>> ELSE Append(NatToString(n \div 10), d)

(***************************************************************************)
(* XmlDateTime: the bit fields, the comparisons, and the conversions.  The *)
(* strings of the model have no quote and no backslash; the time zone has  *)
(* no offset, and the times are those of the last day of 1969 and of       *)
(* January 1970.                                                           *)
(***************************************************************************)
ZeroDateTime ==
    [error |-> 0, dateonly |-> 0, year |-> 0, month |-> 0, day |-> 0,
     hours |-> 0, minutes |-> 0, seconds |-> 0, ms |-> 0]

\* XmlDateTime::operator==.
DateTimeEq(a, b) ==
    IF a.error = 1 \/ b.error = 1 THEN FALSE
    ELSE IF a.dateonly # b.dateonly \/ a.year # b.year \/ a.month # b.month
            \/ a.day # b.day THEN FALSE
    ELSE IF a.dateonly = 1 THEN TRUE
    ELSE a.hours = b.hours /\ a.minutes = b.minutes /\ a.seconds = b.seconds
         /\ a.ms = b.ms

\* The first of the fields that differs decides.
RECURSIVE FieldsLess(_, _)
FieldsLess(a, b) ==
    IF a = <<>> THEN FALSE
    ELSE IF Head(a) < Head(b) THEN TRUE
    ELSE IF Head(a) > Head(b) THEN FALSE
    ELSE FieldsLess(Tail(a), Tail(b))

\* XmlDateTime::operator<.
DateTimeLess(a, b) ==
    IF a.error = 1 \/ b.error = 1 THEN FALSE
    ELSE IF <<a.year, a.month, a.day>> # <<b.year, b.month, b.day>>
    THEN FieldsLess(<<a.year, a.month, a.day>>, <<b.year, b.month, b.day>>)
    ELSE IF a.dateonly = 1 /\ b.dateonly = 0 THEN TRUE
    ELSE IF a.dateonly = 0 /\ b.dateonly = 1 THEN FALSE
    ELSE IF a.dateonly = 1 /\ b.dateonly = 1 THEN FALSE
    ELSE FieldsLess(<<a.hours, a.minutes, a.seconds, a.ms>>,
                    <<b.hours, b.minutes, b.seconds, b.ms>>)

\* XmlUtils::Split with one delimiter: the runs of the other characters.
RECURSIVE SplitFrom(_, _, _)
SplitFrom(str, delimiter, part) ==
    IF str = <<>> THEN (IF part = <<>> THEN <<>> ELSE <<part>>)
    ELSE IF Head(str) = delimiter
    THEN (IF part = <<>> THEN <<>> ELSE <<part>>) \o SplitFrom(Tail(str), delimiter, <<>>)
    ELSE SplitFrom(Tail(str), delimiter, Append(part, Head(str)))

SplitBy(input, delimiter) == SplitFrom(input, delimiter, <<>>)

\* abs(atoi(s)).
AbsAtoi(s) == Abs(ParseInteger(s))

\* The year of FromString: two digits are of this or the last century, and
\* 0 stands for the year it rejects.
YearOf(year) ==
    IF year <= 49 THEN year + 2000
    ELSE IF year <= 99 THEN year + 1900
    ELSE IF year > 2049 THEN 0
    ELSE year

\* FromString once the date part and the time part are told apart; a time
\* part needs three fields between colons.
FromDateAndTime(datePart, timePart) ==
    IF Len(SplitBy(datePart, "-")) < 3 THEN [ZeroDateTime EXCEPT !.error = 1]
    ELSE IF YearOf(AbsAtoi(SplitBy(datePart, "-")[1])) = 0
    THEN [ZeroDateTime EXCEPT !.error = 1]
    ELSE IF AbsAtoi(SplitBy(datePart, "-")[2]) = 0 \/ AbsAtoi(SplitBy(datePart, "-")[2]) > 12
    THEN [ZeroDateTime EXCEPT !.error = 1]
    ELSE IF AbsAtoi(SplitBy(datePart, "-")[3]) = 0 \/ AbsAtoi(SplitBy(datePart, "-")[3]) > 31
    THEN [ZeroDateTime EXCEPT !.error = 1]
    ELSE CASE timePart = <<>> ->
                [ZeroDateTime EXCEPT !.dateonly = 1,
                                     !.year = YearOf(AbsAtoi(SplitBy(datePart, "-")[1])),
                                     !.month = AbsAtoi(SplitBy(datePart, "-")[2]),
                                     !.day = AbsAtoi(SplitBy(datePart, "-")[3])]
           [] timePart # <<>> /\ Len(SplitBy(timePart, ":")) < 3 ->
                [ZeroDateTime EXCEPT !.error = 1, !.dateonly = 0]

\* XmlDateTime::FromString(d_or_dt).
FromString(d_or_dt) ==
    IF Len(SplitBy(d_or_dt, " ")) = 0 \/ Len(SplitBy(d_or_dt, " ")) > 2
    THEN [ZeroDateTime EXCEPT !.error = 1]
    ELSE IF Len(SplitBy(d_or_dt, " ")) = 2
    THEN FromDateAndTime(SplitBy(d_or_dt, " ")[1], SplitBy(d_or_dt, " ")[2])
    ELSE IF \E i \in 1..Len(SplitBy(d_or_dt, " ")[1]) : SplitBy(d_or_dt, " ")[1][i] = "-"
    THEN FromDateAndTime(SplitBy(d_or_dt, " ")[1], <<>>)
    ELSE FromDateAndTime(<<>>, SplitBy(d_or_dt, " ")[1])

\* ToStdTime: mktime of the date and the time.
ToStdTime(dt) ==
    CASE dt.year = 1970 /\ dt.month = 1 ->
            (dt.day - 1) * 86400 + dt.hours * 3600 + dt.minutes * 60 + dt.seconds
      [] dt.year = 1969 /\ dt.month = 12 /\ dt.day = 31 ->
            dt.hours * 3600 + dt.minutes * 60 + dt.seconds - 86400

\* FromStdTime: localtime of the seconds since 1970.
FromStdTime(t) ==
    CASE t >= 0 /\ t < 31 * 86400 ->
            [ZeroDateTime EXCEPT !.year = 1970, !.month = 1,
                                 !.day = t \div 86400 + 1,
                                 !.hours = (t % 86400) \div 3600,
                                 !.minutes = (t % 3600) \div 60,
                                 !.seconds = t % 60]
      [] t < 0 /\ t >= 0 - 86400 ->
            [ZeroDateTime EXCEPT !.year = 1969, !.month = 12, !.day = 31,
                                 !.hours = (t + 86400) \div 3600,
                                 !.minutes = ((t + 86400) % 3600) \div 60,
                                 !.seconds = (t + 86400) % 60]

FromInteger(i) == FromStdTime(i)

\* FromReal: the seconds, and the rest in ten-thousandths.
FromReal(d) ==
    [FromInteger(RealToInt(d)) EXCEPT
        !.ms = RealToInt(Rat((d.num - RealToInt(d) * d.den) * 10000, d.den))]

ToReal(dt) == Rat(ToStdTime(dt) * 10000 + dt.ms, 10000)

ToInteger(dt) == ToStdTime(dt)

\* std::setw(width) with the fill '0'.
RECURSIVE Pad(_, _)
Pad(str, width) == IF Len(str) >= width THEN str ELSE Pad(<<"0">> \o str, width)

\* p of ToString: ms without its trailing zeros.
RECURSIVE StripZeros(_)
StripZeros(p) == IF p > 0 /\ p % 10 = 0 THEN StripZeros(p \div 10) ELSE p

\* XmlDateTime::ToString().
DateTimeToString(dt) ==
    IF dt.error = 1 THEN <<>>
    ELSE Pad(NatToString(dt.year), 4) \o <<"-">> \o Pad(NatToString(dt.month), 2)
         \o <<"-">> \o Pad(NatToString(dt.day), 2)
         \o (IF dt.dateonly = 1 THEN <<>>
             ELSE <<" ">> \o Pad(NatToString(dt.hours), 2) \o <<":">>
                  \o Pad(NatToString(dt.minutes), 2) \o <<":">>
                  \o Pad(NatToString(dt.seconds), 2)
                  \o (IF dt.ms = 0 THEN <<>>
                      ELSE IF dt.ms < 10
                      THEN <<".", "0", "0", "0">> \o NatToString(StripZeros(dt.ms))
                      ELSE IF dt.ms < 100
                      THEN <<".", "0", "0">> \o NatToString(StripZeros(dt.ms))
                      ELSE IF dt.ms < 1000
                      THEN <<".", "0">> \o NatToString(StripZeros(dt.ms))
                      ELSE <<".">> \o NatToString(StripZeros(dt.ms))))

\* XmlValue(XmlDateTime): the members of the union are one storage, of
\* which the model keeps dtval for a date-time only.
DateTimeValue(dt) ==
    [type |-> "DateTime", sval |-> <<>>, rval |-> Fin(0), ival |-> 0, bval |-> FALSE,
     dtval |-> dt]

Compare(v1, v2) ==
    IF v1.type # v2.type
    THEN (IF TypeRank(v1.type) < TypeRank(v2.type) THEN 0 - 1 ELSE 1)
    ELSE CASE v1.type = "Real" ->
                IF RealLess(v1.rval, v2.rval) THEN 0 - 1
                ELSE IF RealEq(v1.rval, v2.rval) THEN 0 ELSE 1
           [] v1.type = "Integer" ->
                IF v1.ival < v2.ival THEN 0 - 1 ELSE IF v1.ival = v2.ival THEN 0 ELSE 1
           [] v1.type = "Boolean" ->
                IF ~v1.bval /\ v2.bval THEN 0 - 1 ELSE IF v1.bval = v2.bval THEN 0 ELSE 1
           [] v1.type = "DateTime" ->
                IF DateTimeLess(v1.dtval, v2.dtval) THEN 0 - 1
                ELSE IF DateTimeEq(v1.dtval, v2.dtval) THEN 0 ELSE 1
           [] v1.type = "String" -> strcmp(v1.sval, v2.sval)
           [] OTHER -> 0

\* XmlUtils::ToString of an integer, and of a double that holds an integer.
IntToString(n) == IF n < 0 THEN <<"-">> \o NatToString(0 - n) ELSE NatToString(n)

Convert(fromValue, toType) ==
    CASE toType = "Real" ->
            RealValue(CASE fromValue.type = "Real" -> fromValue.rval
                        [] fromValue.type = "Integer" -> Fin(fromValue.ival)
                        [] fromValue.type = "Boolean" ->
                              Fin(IF fromValue.bval THEN 1 ELSE 0)
                        [] fromValue.type = "String" -> ParseReal(fromValue.sval)
                        [] fromValue.type = "DateTime" -> ToReal(fromValue.dtval)
                        [] OTHER -> Fin(0))
      [] toType = "Integer" ->
            IntegerValue(CASE fromValue.type = "Real" -> RealToInt(fromValue.rval)
                           [] fromValue.type = "Integer" -> fromValue.ival
                           [] fromValue.type = "Boolean" ->
                                 (IF fromValue.bval THEN 1 ELSE 0)
                           [] fromValue.type = "String" -> ParseInteger(fromValue.sval)
                           [] fromValue.type = "DateTime" -> ToInteger(fromValue.dtval)
                           [] OTHER -> 0)
      [] toType = "Boolean" ->
            BooleanValue(CASE fromValue.type = "Real" -> ~RealEq(fromValue.rval, Fin(0))
                           [] fromValue.type = "Integer" -> fromValue.ival # 0
                           [] fromValue.type = "Boolean" -> fromValue.bval
                           [] fromValue.type = "String" ->
                                 /\ fromValue.sval # <<>>
                                 /\ fromValue.sval # <<"f", "a", "l", "s", "e">>
                                 /\ Head(fromValue.sval) # "0"
                           [] OTHER -> FALSE)
      [] toType \in {"String", "Unknown"} ->
            StringValue(CASE fromValue.type = "Real" /\ fromValue.rval.cls = "fin"
                                /\ fromValue.rval.den = 1 ->
                                 IntToString(fromValue.rval.num)
                          [] fromValue.type = "Integer" -> IntToString(fromValue.ival)
                          [] fromValue.type = "Boolean" ->
                                (IF fromValue.bval THEN <<"t", "r", "u", "e">>
                                 ELSE <<"f", "a", "l", "s", "e">>)
                          [] fromValue.type = "String" -> fromValue.sval
                          [] fromValue.type = "DateTime" ->
                                DateTimeToString(fromValue.dtval)
                          [] fromValue.type = "Unknown" -> <<>>)
      [] toType = "DateTime" ->
            DateTimeValue(CASE fromValue.type = "Real" -> FromReal(fromValue.rval)
                            [] fromValue.type = "Integer" -> FromInteger(fromValue.ival)
                            [] fromValue.type = "String" -> FromString(fromValue.sval)
                            [] fromValue.type = "DateTime" -> fromValue.dtval
                            [] OTHER -> ZeroDateTime)

(***************************************************************************)
(* XmlAggregate: BasicAggrHelper m_v1 as its constructor leaves it, Update *)
(* and GetAggregate.                                                       *)
(***************************************************************************)
NewAggregate == [m_count |-> 0, m_min |-> DBL_MAX, m_max |-> DBL_MIN, m_sum |-> Fin(0)]

Update(aggr, x) ==
    [m_count |-> aggr.m_count + 1,
     m_min |-> IF RealLess(x, aggr.m_min) THEN x ELSE aggr.m_min,
     m_max |-> IF RealLess(aggr.m_max, x) THEN x ELSE aggr.m_max,
     m_sum |-> RealAdd(aggr.m_sum, x)]

GetAggregate(aggr, aggrType) ==
    CASE aggrType = "Count" -> RealValue(Fin(aggr.m_count))
      [] aggrType = "Min" -> RealValue(aggr.m_min)
      [] aggrType = "Max" -> RealValue(aggr.m_max)
      [] aggrType = "Sum" -> RealValue(aggr.m_sum)

(***************************************************************************)
(* Expressions.  An XmlExpr is its operator's opcode, its arguments, its   *)
(* value m_value (whose type tag is the type of the expression), the path  *)
(* or the joined column it refers to and, for an aggregate operator, the   *)
(* aggrIdx of its aggregator.                                              *)
(***************************************************************************)
AggregateOps == {"OpSum", "OpMinAggr", "OpMaxAggr", "OpCount"}

DirectiveOps ==
    {"OpWhere", "OpFirst", "OpTop", "OpSort", "OpDistinct", "OpJoin", "OpPivot"}

\* The type column of the operator table.
OperatorType(opcode) ==
    CASE opcode \in {"OpNeg", "OpDiv", "OpAdd", "OpReal",
                     "OpSum", "OpMinAggr", "OpMaxAggr"} -> "Real"
      [] opcode \in {"OpInt", "OpCount"} -> "Integer"
      [] opcode \in {"OpEQ", "OpGT", "OpLT"} -> "Boolean"
      [] opcode = "OpStr" -> "String"
      [] OTHER -> "Unknown"

\* XmlAggregateOperator::aggrType of the aggregate operators.
AggrTypeOf(opcode) ==
    CASE opcode = "OpSum" -> "Sum" [] opcode = "OpMinAggr" -> "Min"
      [] opcode = "OpMaxAggr" -> "Max" [] opcode = "OpCount" -> "Count"

\* ParseFunction, ParseUnaryOperator, ParseInfixOperator: the operator, its
\* arguments and SetType(op->type).
Expr(opcode, args) ==
    [opcode |-> opcode, m_args |-> args,
     m_value |-> [DefaultValue EXCEPT !.type = OperatorType(opcode)],
     ref |-> "", joined |-> FALSE, index |-> 0, aggrIdx |-> 0]

\* ParseRef: a reference to a path of the input, or of the joined input.
PathRef(pathSpec) == [Expr("OpPathRef", <<>>) EXCEPT !.ref = pathSpec]

\* `index` is the index of the column that HoistJoinExpr makes for the
\* reference in the join query.
JoinedPathRef(pathSpec, index) ==
    [Expr("OpPathRef", <<>>) EXCEPT !.ref = pathSpec, !.joined = TRUE,
                                    !.index = index]

\* ParseLiteral: SetValueAndType of the number (a Real) or of the string.
NumberLiteral(n) == [Expr("OpLiteral", <<>>) EXCEPT !.m_value = RealValue(Fin(n))]

StringLiteral(s) == [Expr("OpLiteral", <<>>) EXCEPT !.m_value = StringValue(s)]

SetType(expr, type) == [expr EXCEPT !.m_value.type = type]

ChangeType(expr, type) == [expr EXCEPT !.m_value = Convert(expr.m_value, type)]

\* XmlExprTypes::InferType: the arguments first, then the rule of the
\* operator, which sets the type of the expression and changes the types of
\* its arguments.
InferOperator(e) ==
    LET args == e.m_args
        t0 == IF Len(args) >= 1 THEN args[1].m_value.type ELSE "Unknown"
        t1 == IF Len(args) >= 2 THEN args[2].m_value.type ELSE "Unknown"
        ChangeArgs(type) == [i \in 1..Len(args) |-> ChangeType(args[i], type)]
    IN  CASE e.opcode = "OpReal" ->
                [SetType(e, "Real") EXCEPT !.m_args = ChangeArgs("Real")]
          [] e.opcode = "OpInt" ->
                [SetType(e, "Integer") EXCEPT !.m_args = ChangeArgs("Integer")]
          [] e.opcode = "OpStr" ->
                [SetType(e, "String") EXCEPT !.m_args = ChangeArgs("String")]
          [] e.opcode = "OpNeg" ->
                LET type == IF t0 \in {"String", "Integer"} THEN t0 ELSE "Real"
                IN  [SetType(e, type) EXCEPT !.m_args = ChangeArgs(type)]
          [] e.opcode \in {"OpAdd", "OpDiv"} ->
                LET type == IF t0 = "Integer" /\ t1 = "Integer"
                            THEN "Integer" ELSE "Real"
                IN  [SetType(e, type) EXCEPT !.m_args = ChangeArgs(type)]
          [] e.opcode \in {"OpEQ", "OpGT", "OpLT"} ->
                [SetType(e, "Boolean") EXCEPT
                    !.m_args = ChangeArgs(ConstrainType(t0, t1))]
          [] e.opcode \in {"OpSum", "OpMinAggr", "OpMaxAggr"} ->
                LET type == IF t0 = "Integer" THEN "Integer" ELSE "Real"
                IN  [SetType(e, type) EXCEPT !.m_args = <<SetType(args[1], type)>>]
          [] e.opcode \in {"OpFirst", "OpTop"} ->
                [e EXCEPT !.m_args = ChangeArgs("Integer")]
          [] e.opcode = "OpJoin" ->
                [e EXCEPT !.m_args = <<ChangeType(args[1], "String")>> \o Tail(args)]
          [] e.opcode = "OpPivot" ->
                [e EXCEPT !.m_args = [i \in 1..Len(args) |->
                    ChangeType(args[i], IF i = 3 THEN "Boolean" ELSE "String")]]
          [] e.opcode = "OpColumnRef" -> SetType(e, "String")
          [] e.opcode = "OpWhere" -> SetType(e, t0)
          [] OTHER -> e

RECURSIVE InferType(_)
InferType(expr) ==
    InferOperator([expr EXCEPT !.m_args = [i \in 1..Len(expr.m_args) |->
                                              InferType(expr.m_args[i])]])

\* The number of aggregate operators of an expression.
RECURSIVE AggrCount(_)
AggrCount(expr) ==
    LET RECURSIVE Sum(_)
        Sum(i) == IF i = 0 THEN 0 ELSE Sum(i - 1) + AggrCount(expr.m_args[i])
    IN  (IF expr.opcode \in AggregateOps THEN 1 ELSE 0) + Sum(Len(expr.m_args))

\* PostprocessColumnExprs: aggrIdx = m_aggrCount++ on every aggregate
\* operator, the expression before its arguments, m_aggrCount being
\* `aggrCount` when the expression is reached.
RECURSIVE AssignAggrIdx(_, _)
AssignAggrIdx(expr, aggrCount) ==
    LET own == IF expr.opcode \in AggregateOps THEN 1 ELSE 0
        RECURSIVE Before(_)
        Before(i) == IF i = 1 THEN aggrCount + own
                     ELSE Before(i - 1) + AggrCount(expr.m_args[i - 1])
    IN  [expr EXCEPT !.aggrIdx = aggrCount,
                     !.m_args = [i \in 1..Len(expr.m_args) |->
                                    AssignAggrIdx(expr.m_args[i], Before(i))]]

\* XmlExpr::SubtreeContainsAggregate after ValidateStructureAndHoistJoinColumns
\* has rolled the flag up.
SubtreeContainsAggregate(expr) == AggrCount(expr) > 0

\* HoistJoinExpr on the joined path references: a column reference of the
\* type of the hoisted expression to the column of the join query.
RECURSIVE HoistJoinExpr(_)
HoistJoinExpr(expr) ==
    IF expr.opcode = "OpPathRef" /\ expr.joined
    THEN [expr EXCEPT !.opcode = "OpColumnRef"]
    ELSE [expr EXCEPT !.m_args = [i \in 1..Len(expr.m_args) |->
                                     HoistJoinExpr(expr.m_args[i])]]

(***************************************************************************)
(* XmlExprEvaluator::Evaluate.  `context` is the XmlParserContext,         *)
(* `parsedValue` the strings bound to the paths, `rowAggrs` the aggregators *)
(* of the row (<<>> for an evaluator made without them).  SetValue         *)
(* converts the result to the type of the expression.                      *)
(***************************************************************************)
\* The value an operator hands to SetValue from the values of its
\* arguments.
OperatorResult(expr, context, parsedValue, rowAggrs, arg0, arg1) ==
    CASE expr.opcode = "OpColumnRef" ->
            (CASE expr.joined /\ context.emptyOuterJoin -> DefaultValue
               [] expr.joined /\ ~context.emptyOuterJoin /\ context.joinTable # <<>> ->
                    context.joinTable[context.joinTableRowIdx + 1][expr.index + 1])
      [] expr.opcode = "OpPathRef" -> StringValue(parsedValue[expr.ref])
      [] expr.opcode = "OpReal" -> RealValue(arg0.rval)
      [] expr.opcode = "OpInt" -> IntegerValue(arg0.ival)
      [] expr.opcode = "OpStr" -> StringValue(arg0.sval)
      [] expr.opcode = "OpNeg" ->
            IF arg0.type \in {"Unknown", "String"} THEN StringValue(arg0.sval)
            ELSE IF arg0.type = "Integer" THEN IntegerValue(0 - arg0.ival)
            ELSE RealValue(RealNeg(arg0.rval))
      [] expr.opcode = "OpAdd" ->
            IF arg0.type = "Integer" THEN IntegerValue(arg0.ival + arg1.ival)
            ELSE RealValue(RealAdd(arg0.rval, arg1.rval))
      [] expr.opcode = "OpDiv" ->
            IF arg0.type = "Integer"
            THEN (IF arg1.ival = 0 THEN IntegerValue(0)
                  ELSE IntegerValue(RealToInt(Rat(arg0.ival, arg1.ival))))
            ELSE IF RealEq(arg1.rval, Fin(0)) THEN RealValue(NaN)
            ELSE RealValue(RealQuot(arg0.rval, arg1.rval))
      [] expr.opcode = "OpEQ" -> BooleanValue(Compare(arg0, arg1) = 0)
      [] expr.opcode = "OpLT" -> BooleanValue(Compare(arg0, arg1) < 0)
      [] expr.opcode = "OpGT" -> BooleanValue(Compare(arg0, arg1) > 0)
      [] expr.opcode \in AggregateOps ->
            IF context.passType = "MainPass" THEN RealValue(Fin(0))
            ELSE GetAggregate(rowAggrs[expr.aggrIdx + 1], AggrTypeOf(expr.opcode))
      [] expr.opcode = "OpWhere" -> arg0

\* The operators whose case sets the value of the expression; the value of
\* any other expression is the one it has.
SetsValue(expr, context) ==
    \/ expr.opcode \in {"OpColumnRef", "OpPathRef", "OpReal", "OpInt", "OpStr", "OpNeg",
                         "OpAdd", "OpDiv", "OpEQ", "OpLT", "OpGT", "OpWhere"}
    \/ /\ expr.opcode \in AggregateOps
       /\ context.passType \in {"MainPass", "StoredValuesPass"}

RECURSIVE Evaluate(_, _, _, _)
Evaluate(expr, context, parsedValue, rowAggrs) ==
    IF SetsValue(expr, context)
    THEN Convert(OperatorResult(expr, context, parsedValue, rowAggrs,
                                Evaluate(expr.m_args[1], context, parsedValue, rowAggrs),
                                Evaluate(expr.m_args[2], context, parsedValue, rowAggrs)),
                 expr.m_value.type)
    ELSE expr.m_value

\* What an aggregate operator ingests of the value of its argument: ival
\* for an Integer argument and rval for any other.
AggregateInput(arg, arg0) ==
    IF arg.m_value.type = "Integer" THEN Fin(arg0.ival) ELSE arg0.rval

\* The aggregators of the row after Evaluate(expr): in the main pass every
\* aggregate operator of the expression ingests its argument.
RECURSIVE EvaluateUpdates(_, _, _, _)
RECURSIVE ArgumentUpdates(_, _, _, _, _)
ArgumentUpdates(expr, context, parsedValue, rowAggrs, i) ==
    IF i = 0 THEN rowAggrs
    ELSE EvaluateUpdates(expr.m_args[i], context, parsedValue,
                         ArgumentUpdates(expr, context, parsedValue, rowAggrs, i - 1))

EvaluateUpdates(expr, context, parsedValue, rowAggrs) ==
    IF expr.opcode \in AggregateOps /\ context.passType = "MainPass"
    THEN [ArgumentUpdates(expr, context, parsedValue, rowAggrs, Len(expr.m_args))
            EXCEPT ![expr.aggrIdx + 1] =
                Update(@, AggregateInput(expr.m_args[1],
                                         Evaluate(expr.m_args[1], context, parsedValue,
                                                  rowAggrs)))]
    ELSE ArgumentUpdates(expr, context, parsedValue, rowAggrs, Len(expr.m_args))

(***************************************************************************)
(* XmlQuerySpec.  A column is its expression, its flags and its valueIdx   *)
(* (npos is -1); ParseColumnSpecs makes the query spec of a list of column *)
(* expressions.                                                            *)
(***************************************************************************)
npos == 0 - 1

BooleanLiteral(b) == [Expr("OpLiteral", <<>>) EXCEPT !.m_value = BooleanValue(b)]

\* PostprocessColumnExprs changes a where to Boolean.
PostprocessWhere(expr) ==
    IF expr.opcode = "OpWhere" THEN ChangeType(expr, "Boolean") ELSE expr

\* ParseColumnExpr: InferType, then PostprocessColumnExprs, which numbers the
\* aggregate operators from `aggrCount`.
ParseColumnExpr(columnSpec, aggrCount) ==
    AssignAggrIdx(PostprocessWhere(InferType(columnSpec)), aggrCount)

\* The flags PostprocessColumnExprs gives the current column.
ColumnFlags(expr) ==
    (IF expr.opcode \notin DirectiveOps THEN {"Output"} ELSE {})
    \cup (IF expr.opcode = "OpWhere" THEN {"Filter"} ELSE {})
    \cup (IF AggrCount(expr) > 0 THEN {"Aggregate"} ELSE {})

IsOutput(column) == "Output" \in column.flags

IsFilter(column) == "Filter" \in column.flags

IsAggregate(column) == "Aggregate" \in column.flags

\* UpdateColumnIndices: the index of a column is its position, the Output
\* or Aggregate columns are numbered in list order, the others have no
\* valueIdx.
UpdateColumnIndices(columns) ==
    [i \in 1..Len(columns) |->
        [columns[i] EXCEPT !.index = i - 1,
                           !.valueIdx =
            IF IsOutput(columns[i]) \/ IsAggregate(columns[i])
            THEN Cardinality({j \in 1..(i - 1) :
                                IsOutput(columns[j]) \/ IsAggregate(columns[j])})
            ELSE npos]]

\* The argument of the first column whose expression is the directive
\* `opcode`, 0 when there is no such column.
DirectiveColumn(columns, opcode) ==
    IF \E i \in 1..Len(columns) : columns[i].expr.opcode = opcode
    THEN CHOOSE i \in 1..Len(columns) :
            /\ columns[i].expr.opcode = opcode
            /\ \A j \in 1..(i - 1) : columns[j].expr.opcode # opcode
    ELSE 0

Max(a, b) == IF a >= b THEN a ELSE b

Min(a, b) == IF a <= b THEN a ELSE b

\* PostProcessRefs sets JoinEqualityWhere on every where expression.
JoinEqualityWhere(expr) == expr.opcode = "OpWhere"

\* PostProcessRefs: the operand opposite to a reference to a joined column
\* in the equality of a where.  The references are resolved before the
\* joined paths are hoisted into columns.
EqualityExprs(columnSpecs) ==
    LET Operand(expr) ==
            IF expr.opcode = "OpWhere" /\ expr.m_args[1].opcode = "OpEQ"
            THEN LET pred == expr.m_args[1]
                 IN  IF pred.m_args[1].opcode = "OpColumnRef" /\ pred.m_args[1].joined
                     THEN <<pred.m_args[2]>>
                     ELSE IF pred.m_args[2].opcode = "OpColumnRef"
                             /\ pred.m_args[2].joined
                     THEN <<pred.m_args[1]>>
                     ELSE <<>>
            ELSE <<>>
        RECURSIVE Collect(_)
        Collect(i) == IF i = 0 THEN <<>>
                      ELSE Collect(i - 1) \o Operand(InferType(columnSpecs[i]))
    IN  Collect(Len(columnSpecs))

\* m_aggrCount when ParseColumnSpecs reaches the column expression i.
RECURSIVE AggrBefore(_, _)
AggrBefore(columnSpecs, i) ==
    IF i = 1 THEN 0
    ELSE AggrBefore(columnSpecs, i - 1) + AggrCount(columnSpecs[i - 1])

\* The column InsertColumn adds for a parsed expression, its join paths
\* hoisted.
Column(expr) ==
    [expr |-> HoistJoinExpr(expr), flags |-> ColumnFlags(expr), index |-> npos,
     valueIdx |-> npos]

\* An argument of the directive `opcode` of the query.
DirectiveArg(columns, opcode, i) ==
    columns[DirectiveColumn(columns, opcode)].expr.m_args[i]

HasDirective(columns, opcode) == DirectiveColumn(columns, opcode) # 0

\* m_reversedStringSorts: a sort argument of a string type with neg at
\* its root.
ReversedStringSorts(sortArgs) ==
    [i \in 1..Len(sortArgs) |->
        /\ sortArgs[i].m_value.type \in {"Unknown", "String"}
        /\ sortArgs[i].opcode = "OpNeg"]

\* The query spec PostprocessColumnExprs, PostProcessRefs and
\* XmlPivoter::BindColumns (m_column, m_jagged) leave for the columns.
QuerySpecOf(columns, columnSpecs, gatherData) ==
    [m_columns |-> columns,
     m_flags |->
        (IF \E i \in 1..Len(columns) : IsAggregate(columns[i])
         THEN {"AggregatesExist"} ELSE {})
        \cup (IF gatherData THEN {"GatherDataPassRequired"} ELSE {})
        \cup (IF HasDirective(columns, "OpDistinct") THEN {"DistinctUsed"} ELSE {})
        \cup (IF HasDirective(columns, "OpFirst") THEN {"FirstNRowsSpecified"} ELSE {})
        \cup (IF HasDirective(columns, "OpTop") THEN {"TopNRowsSpecified"} ELSE {})
        \cup (IF HasDirective(columns, "OpPivot") THEN {"HasPivot"} ELSE {})
        \cup (IF HasDirective(columns, "OpJoin") THEN {"LeftSideOfJoin"} ELSE {}),
     m_firstNRows |->
        IF HasDirective(columns, "OpFirst")
        THEN Max(0, DirectiveArg(columns, "OpFirst", 1).m_value.ival) ELSE 0,
     m_topNRows |->
        IF HasDirective(columns, "OpTop")
        THEN Max(0, DirectiveArg(columns, "OpTop", 1).m_value.ival) ELSE 0,
     m_aggrCount |-> AggrBefore(columnSpecs, Len(columnSpecs) + 1),
     m_numValueColumns |->
        Cardinality({i \in 1..Len(columns) : columns[i].valueIdx # npos}),
     m_sortColumn |-> DirectiveColumn(columns, "OpSort"),
     m_reversedStringSorts |->
        IF HasDirective(columns, "OpSort")
        THEN ReversedStringSorts(columns[DirectiveColumn(columns, "OpSort")].expr.m_args)
        ELSE <<>>,
     outer |-> /\ HasDirective(columns, "OpJoin")
               /\ Len(columns[DirectiveColumn(columns, "OpJoin")].expr.m_args) = 2
               /\ DirectiveArg(columns, "OpJoin", 2).m_value.bval,
     m_column |-> HasDirective(columns, "OpPivot"),
     m_jagged |-> /\ HasDirective(columns, "OpPivot")
                  /\ Len(columns[DirectiveColumn(columns, "OpPivot")].expr.m_args) = 3
                  /\ DirectiveArg(columns, "OpPivot", 3).m_value.type = "Boolean"
                  /\ DirectiveArg(columns, "OpPivot", 3).m_value.bval,
     \* JoinSpec::equalityExprs
     equalityExprs |-> EqualityExprs(columnSpecs)]

\* ParseColumnSpecs of the column expressions `columnSpecs`; `gatherData`
\* tells whether an operator of the query declares GatherData.
ParseColumnSpecs(columnSpecs, gatherData) ==
    QuerySpecOf(UpdateColumnIndices(
                    [i \in 1..Len(columnSpecs) |->
                        Column(ParseColumnExpr(columnSpecs[i],
                                               AggrBefore(columnSpecs, i)))]),
                columnSpecs, gatherData)

GetNumValueColumns(querySpec) == querySpec.m_numValueColumns

GetNumSortValues(querySpec) ==
    IF querySpec.m_sortColumn # 0
    THEN Len(querySpec.m_columns[querySpec.m_sortColumn].expr.m_args) ELSE 0

\* The size of a row: its values, then its sort keys.
GetRowSize(querySpec) == GetNumValueColumns(querySpec) + GetNumSortValues(querySpec)

(***************************************************************************)
(* XmlQuery.  The state of the query and of the parser context is a record *)
(* `s` of m_flags, context, m_seqRows, m_rowRefs, m_aggregates and         *)
(* m_distinctRows, with the calls of the row callback in `output` and the  *)
(* row iterations of JoinAndCommitRow in `trace`.  A RowRef is the place   *)
(* of the row it points to (in m_seqRows or in a key of m_distinctRows)    *)
(* and its count.                                                          *)
(***************************************************************************)
Aggregated(querySpec) == "AggregatesExist" \in querySpec.m_flags

Distinct(querySpec) == "DistinctUsed" \in querySpec.m_flags \/ Aggregated(querySpec)

NeedsSorting(querySpec) ==
    querySpec.m_sortColumn # 0 /\ GetNumValueColumns(querySpec) > 0

Streaming(querySpec) ==
    ~Distinct(querySpec) /\ ~NeedsSorting(querySpec) /\ ~Aggregated(querySpec)

\* XmlPivoter::Enabled and RequirePrepass.
Enabled(querySpec) == querySpec.m_column

RequirePrepass(querySpec) == Enabled(querySpec) /\ querySpec.m_jagged

\* GetPassTypes with the stored-values pass always there.
GetPassTypesAlwaysStored(querySpec) ==
    (IF "GatherDataPassRequired" \in querySpec.m_flags \/ RequirePrepass(querySpec)
     THEN <<"GatherDataPass">> ELSE <<>>)
    \o <<"MainPass", "StoredValuesPass">>

GetPassTypes(querySpec) ==
    (IF "GatherDataPassRequired" \in querySpec.m_flags \/ RequirePrepass(querySpec)
     THEN <<"GatherDataPass">> ELSE <<>>)
    \o <<"MainPass">>
    \o (IF ~Streaming(querySpec) THEN <<"StoredValuesPass">> ELSE <<>>)

SetFlags(m_flags, flag, set) == IF set THEN m_flags \cup {flag} ELSE m_flags \ {flag}

\* The row a RowRef points to.
Deref(s, first) ==
    IF first.store = "seq" THEN s.m_seqRows[first.at] ELSE s.m_distinctRows[first.at].key

\* rowIdx counts from 0.
GetRow(s, querySpec, rowIdx) ==
    IF Streaming(querySpec) THEN s.m_seqRows[rowIdx + 1]
    ELSE IF Distinct(querySpec) THEN Deref(s, s.m_rowRefs[rowIdx + 1].first)
    ELSE IF Len(s.m_rowRefs) = Len(s.m_seqRows)
    THEN Deref(s, s.m_rowRefs[rowIdx + 1].first)
    ELSE s.m_seqRows[rowIdx + 1]

GetRowRepeatCount(s, querySpec, rowIdx) ==
    IF Streaming(querySpec) \/ Distinct(querySpec) THEN 1
    ELSE IF Len(s.m_rowRefs) = Len(s.m_seqRows) THEN s.m_rowRefs[rowIdx + 1].second
    ELSE 1

\* The header line PrintRow writes: the Output columns by their position in
\* the column list, which stands for the name of the column.
HeaderLine(querySpec) ==
    [header |-> TRUE,
     fields |-> SelectSeq([c \in 1..Len(querySpec.m_columns) |-> c],
                          LAMBDA c : IsOutput(querySpec.m_columns[c]))]

\* The line of a row: the values at the valueIdx of the Output columns.
RowLine(querySpec, row) ==
    [header |-> FALSE,
     fields |-> [i \in 1..Len(HeaderLine(querySpec).fields) |->
                   row[querySpec.m_columns[HeaderLine(querySpec).fields[i]].valueIdx + 1]]]

\* XmlDriver::PrintRow: the header before the first row that is printed,
\* then the row.
PrintRow(s, querySpec, row) ==
    [s EXCEPT !.m_output = (IF s.m_outputHeader THEN Append(@, HeaderLine(querySpec)) ELSE @)
                           \o <<RowLine(querySpec, row)>>,
              !.m_outputHeader = FALSE]

\* The loop of the row callback: PrintRow cnt times.
RECURSIVE PrintRows(_, _, _, _)
PrintRows(s, querySpec, row, cnt) ==
    IF cnt = 0 THEN s
    ELSE PrintRows(PrintRow(s, querySpec, row), querySpec, row, cnt - 1)

\* m_rowCallback(rowIdx) as XmlDriver::Run sets it: the row is printed
\* GetRowRepeatCount times.
RowCallback(s, querySpec, rowIdx) ==
    [PrintRows(s, querySpec, GetRow(s, querySpec, rowIdx),
               GetRowRepeatCount(s, querySpec, rowIdx))
     EXCEPT !.output = Append(@, [rowIdx |-> rowIdx,
                                  row |-> GetRow(s, querySpec, rowIdx),
                                  count |-> GetRowRepeatCount(s, querySpec, rowIdx),
                                  passType |-> s.context.passType])]

RemoveRecycledRow(s) ==
    [s EXCEPT !.m_seqRows = IF "RecycleStorage" \in s.m_flags /\ Len(s.m_seqRows) > 0
                            THEN SubSeq(@, 1, Len(@) - 1) ELSE @,
              !.m_flags = @ \ {"RecycleStorage"}]

\* ResetJoinTable that leaves emptyOuterJoin as it is.
ResetJoinTableKeepsOuter(context) ==
    [context EXCEPT !.joinTable = <<>>, !.joinTableRowIdx = npos]

\* XmlParserContext::ResetJoinTable and SetJoinTable; no join table is <<>>.
ResetJoinTable(context) ==
    [context EXCEPT !.joinTable = <<>>, !.emptyOuterJoin = FALSE,
                    !.joinTableRowIdx = npos]

\* SetJoinTable that starts the iteration at the second row of the bucket.
SetJoinTableAtSecondRow(context, joinTable) ==
    [context EXCEPT !.joinTable = joinTable, !.emptyOuterJoin = FALSE,
                    !.joinTableRowIdx = 1]

SetJoinTable(context, joinTable) ==
    [context EXCEPT !.joinTable = joinTable, !.emptyOuterJoin = FALSE,
                    !.joinTableRowIdx = 0]

\* XmlParserContext::Reset.
ContextReset(passType) ==
    ResetJoinTable([passType |-> passType, numRowsOutput |-> 0, numRowsMatched |-> 0,
                    joinTable |-> <<>>, emptyOuterJoin |-> FALSE,
                    joinTableRowIdx |-> npos, appendingValues |-> FALSE,
                    relativeDepth |-> 0])

\* XmlQuery::Reset that empties the stored rows for every pass.
QueryResetEmptiesAlways(s, querySpec, passType, lastPassType) ==
    LET storeRows == IF passType = "MainPass" THEN ~Streaming(querySpec)
                     ELSE passType = "StoredValuesPass"
        flags == SetFlags(SetFlags(SetFlags(s.m_flags, "ParseStopped", FALSE),
                                   "StoreRows", storeRows),
                          "InvokeRowCallback", passType = lastPassType)
    IN  RemoveRecycledRow([s EXCEPT !.m_flags = flags, !.m_seqRows = <<>>,
                                    !.m_rowRefs = <<>>, !.m_aggregates = <<>>,
                                    !.m_distinctRows = <<>>])

\* XmlQuery::Reset.
QueryReset(s, querySpec, passType, lastPassType) ==
    LET storeRows == IF passType = "MainPass" THEN ~Streaming(querySpec)
                     ELSE passType = "StoredValuesPass"
        flags == SetFlags(SetFlags(SetFlags(s.m_flags, "ParseStopped", FALSE),
                                   "StoreRows", storeRows),
                          "InvokeRowCallback", passType = lastPassType)
        cleared == IF passType = "MainPass"
                   THEN [s EXCEPT !.m_seqRows = <<>>, !.m_rowRefs = <<>>,
                                  !.m_aggregates = <<>>, !.m_distinctRows = <<>>]
                   ELSE s
    IN  RemoveRecycledRow([cleared EXCEPT !.m_flags = flags])

\* XmlParser::Reset.
ParserReset(s, querySpec, passType) ==
    QueryReset([s EXCEPT !.context = ContextReset(passType)], querySpec, passType,
               GetPassTypes(querySpec)[Len(GetPassTypes(querySpec))])

\* std::hash of the values at `indices` (counted from 0): a value of a type
\* without a hasher counts as 0.  The hashers are taken without collisions.
hashXmlRow(row, indices) ==
    [i \in 1..Len(indices) |->
        LET v == row[indices[i] + 1]
        IN  CASE v.type = "Real" -> <<"Real", v.rval>>
              [] v.type = "Integer" -> <<"Integer", v.ival>>
              [] v.type = "Boolean" -> <<"Boolean", v.bval>>
              [] v.type = "String" -> <<"String", v.sval>>
              [] OTHER -> <<"Unknown", 0>>]

equalsXmlRow(left, right, length) ==
    \A i \in 1..length : Compare(left[i], right[i]) = 0

\* XmlRowHash(seqLength) applied to a row.
XmlRowHash(seqLength, row) == hashXmlRow(row, [i \in 1..seqLength |-> i - 1])

\* find that finds no key.
FindNothing(s, querySpec, row) == {}

\* m_distinctRows->find(row): the positions of the keys in the bucket of the
\* row that equal it.
Find(s, querySpec, row) ==
    {i \in 1..Len(s.m_distinctRows) :
        /\ XmlRowHash(GetNumValueColumns(querySpec), s.m_distinctRows[i].key)
              = XmlRowHash(GetNumValueColumns(querySpec), row)
        /\ equalsXmlRow(s.m_distinctRows[i].key, row, GetNumValueColumns(querySpec))}

AllocRow(s, querySpec, currPartitionSize) ==
    LET keepAllRows == ~Distinct(querySpec) /\ ~Streaming(querySpec)
    IN  [s EXCEPT
           !.m_seqRows =
               IF \/ keepAllRows /\ "RecycleStorage" \notin s.m_flags
                  \/ currPartitionSize > 0
                  \/ Len(s.m_seqRows) = 0
               THEN Append(@, [i \in 1..GetRowSize(querySpec) |-> DefaultValue])
               ELSE @,
           !.m_flags = SetFlags(@, "RecycleStorage", ~keepAllRows)]

\* The row is m_seqRows.back().
EvaluateNonAggregateAndSortValues(s, querySpec, parsedValue) ==
    LET columns == querySpec.m_columns
        sortColumn == querySpec.m_sortColumn
        numValueColumns == GetNumValueColumns(querySpec)
        Writers(valueIdx) ==
            {c \in 1..Len(columns) :
                /\ c # sortColumn
                /\ ~IsAggregate(columns[c]) /\ IsOutput(columns[c])
                /\ columns[c].valueIdx = valueIdx}
        SortArg(valueIdx) == columns[sortColumn].expr.m_args[valueIdx - numValueColumns + 1]
        Value(row, valueIdx) ==
            IF Writers(valueIdx) # {}
            THEN Evaluate(columns[CHOOSE c \in Writers(valueIdx) : TRUE].expr,
                          s.context, parsedValue, <<>>)
            ELSE IF /\ sortColumn # 0
                    /\ valueIdx >= numValueColumns
                    /\ valueIdx - numValueColumns < Len(columns[sortColumn].expr.m_args)
                    /\ ~SubtreeContainsAggregate(SortArg(valueIdx))
            THEN Evaluate(SortArg(valueIdx), s.context, parsedValue, <<>>)
            ELSE row[valueIdx + 1]
    IN  [s EXCEPT !.m_seqRows[Len(s.m_seqRows)] =
                      [i \in 1..Len(@) |-> Value(@, i - 1)]]

TestFiltersOnNonAggregateColumns(s, querySpec, parsedValue) ==
    \A c \in 1..Len(querySpec.m_columns) :
        LET column == querySpec.m_columns[c]
        IN  (~IsAggregate(column) /\ IsFilter(column)) =>
               \/ s.context.emptyOuterJoin /\ JoinEqualityWhere(column.expr)
               \/ Evaluate(column.expr, s.context, parsedValue, <<>>).bval

Back(seq) == seq[Len(seq)]

\* StoreRow of a row that equals a stored one, and of a row that does not.
StoreDuplicate(s, rowIdx) == [s EXCEPT !.m_rowRefs[rowIdx + 1].second = @ + 1]

\* StoreNew that records the index after that of the new row reference.
StoreNewIndexedAfter(s, querySpec, row) ==
    [s EXCEPT
       !.m_distinctRows = Append(@, [key |-> row, value |-> Len(s.m_rowRefs) + 1]),
       !.m_rowRefs = Append(@, [first |-> [store |-> "distinct",
                                           at |-> Len(s.m_distinctRows) + 1],
                                second |-> 1]),
       !.m_aggregates =
           IF Aggregated(querySpec)
           THEN Append(@, [i \in 1..querySpec.m_aggrCount |-> NewAggregate])
           ELSE @,
       !.context.numRowsOutput = @ + 1]

StoreNew(s, querySpec, row) ==
    [s EXCEPT
       !.m_distinctRows = Append(@, [key |-> row, value |-> Len(s.m_rowRefs)]),
       !.m_rowRefs = Append(@, [first |-> [store |-> "distinct",
                                           at |-> Len(s.m_distinctRows) + 1],
                                second |-> 1]),
       !.m_aggregates =
           IF Aggregated(querySpec)
           THEN Append(@, [i \in 1..querySpec.m_aggrCount |-> NewAggregate])
           ELSE @,
       !.context.numRowsOutput = @ + 1]

\* The aggregators of a row after the aggregate columns 1..c are evaluated.
RECURSIVE ColumnUpdates(_, _, _, _, _)
ColumnUpdates(columns, context, parsedValue, rowAggrs, c) ==
    IF c = 0 THEN rowAggrs
    ELSE IF IsAggregate(columns[c])
    THEN EvaluateUpdates(columns[c].expr, context, parsedValue,
                         ColumnUpdates(columns, context, parsedValue, rowAggrs, c - 1))
    ELSE ColumnUpdates(columns, context, parsedValue, rowAggrs, c - 1)

UpdateAggregates(s, querySpec, parsedValue, rowIdx) ==
    IF Aggregated(querySpec)
    THEN [s EXCEPT !.m_aggregates[rowIdx + 1] =
                       ColumnUpdates(querySpec.m_columns, s.context, parsedValue, @,
                                     Len(querySpec.m_columns))]
    ELSE s

\* StoreRow from the result indexPos of m_distinctRows->find(row) on.
StoreIndexed(s, querySpec, parsedValue, row, indexPos) ==
    IF indexPos # {}
    THEN UpdateAggregates(
             StoreDuplicate(s, s.m_distinctRows[CHOOSE i \in indexPos : TRUE].value),
             querySpec, parsedValue,
             s.m_distinctRows[CHOOSE i \in indexPos : TRUE].value)
    ELSE UpdateAggregates(StoreNew(s, querySpec, row), querySpec, parsedValue,
                          Len(s.m_rowRefs))

\* StoreRow(m_seqRows.back()): the state after it and what it returns.
StoreRow(s, querySpec, parsedValue) ==
    IF ~Distinct(querySpec) /\ ~NeedsSorting(querySpec)
    THEN [s |-> [s EXCEPT !.context.numRowsOutput = @ + 1], ret |-> FALSE]
    ELSE [s |-> StoreIndexed(s, querySpec, parsedValue, Back(s.m_seqRows),
                             Find(s, querySpec, Back(s.m_seqRows))),
          ret |-> TRUE]

\* CheckFirstNRowsCondition that stops one row early.
CheckFirstNRowsEarly(s, querySpec) ==
    /\ "FirstNRowsSpecified" \in querySpec.m_flags
    /\ s.context.numRowsMatched >= querySpec.m_firstNRows

\* numRowsMatched is counted before the test.
CheckFirstNRowsCondition(s, querySpec) ==
    /\ "FirstNRowsSpecified" \in querySpec.m_flags
    /\ s.context.numRowsMatched > querySpec.m_firstNRows

\* CheckTopNRowsCondition that never stops the parse.
CheckTopNRowsNever(s, querySpec) == FALSE

CheckTopNRowsCondition(s, querySpec) ==
    /\ ~NeedsSorting(querySpec)
    /\ "TopNRowsSpecified" \in querySpec.m_flags
    /\ s.context.numRowsOutput > querySpec.m_topNRows

\* An iteration of the loop of JoinAndCommitRow written to the trace.
Traced(s, parsedValue, evaluated, passed) ==
    [s EXCEPT !.trace =
        Append(@, [passType |-> s.context.passType, parsedValue |-> parsedValue,
                   joinTableRowIdx |-> s.context.joinTableRowIdx,
                   emptyOuterJoin |-> s.context.emptyOuterJoin,
                   evaluated |-> evaluated, passed |-> passed,
                   row |-> Back(s.m_seqRows)])]

\* AfterStoreRow with the row callback invoked for a row that was stored.
AfterStoreRowInvokesStored(store, querySpec) ==
    IF store.ret THEN RowCallback(store.s, querySpec, 0)
    ELSE IF CheckTopNRowsCondition(store.s, querySpec)
    THEN [store.s EXCEPT !.m_flags = SetFlags(@, "ParseStopped", TRUE)]
    ELSE IF Streaming(querySpec) /\ "InvokeRowCallback" \in store.s.m_flags
    THEN RowCallback(store.s, querySpec, 0)
    ELSE store.s

\* AfterStoreRow with the row callback invoked a second time.
AfterStoreRowTwice(store, querySpec) ==
    IF store.ret THEN store.s
    ELSE IF CheckTopNRowsCondition(store.s, querySpec)
    THEN [store.s EXCEPT !.m_flags = SetFlags(@, "ParseStopped", TRUE)]
    ELSE IF Streaming(querySpec) /\ "InvokeRowCallback" \in store.s.m_flags
    THEN RowCallback(RowCallback(store.s, querySpec, 0), querySpec, 0)
    ELSE store.s

\* What follows StoreRow when the filters are passed; `store` is what
\* StoreRow gave.
AfterStoreRow(store, querySpec) ==
    IF store.ret THEN store.s
    ELSE IF CheckTopNRowsCondition(store.s, querySpec)
    THEN [store.s EXCEPT !.m_flags = SetFlags(@, "ParseStopped", TRUE)]
    ELSE IF Streaming(querySpec) /\ "InvokeRowCallback" \in store.s.m_flags
    THEN RowCallback(store.s, querySpec, 0)
    ELSE store.s

\* The iteration from TestFiltersOnNonAggregateColumns on; `s` is the state
\* EvaluateNonAggregateAndSortValues left.
FilterAndStore(s, querySpec, parsedValue) ==
    IF TestFiltersOnNonAggregateColumns(s, querySpec, parsedValue)
    THEN [s |-> Traced(AfterStoreRow(StoreRow(s, querySpec, parsedValue), querySpec),
                       parsedValue, TRUE, TRUE),
          passed |-> TRUE, stopped |-> FALSE]
    ELSE [s |-> Traced(s, parsedValue, TRUE, FALSE), passed |-> FALSE, stopped |-> FALSE]

\* The iteration from CheckFirstNRowsCondition on; `s` is the state with
\* the row counted in numRowsMatched.
Iteration(s, querySpec, parsedValue) ==
    IF CheckFirstNRowsCondition(s, querySpec)
    THEN [s |-> Traced([s EXCEPT !.m_flags = SetFlags(@, "ParseStopped", TRUE)],
                       parsedValue, FALSE, FALSE),
          passed |-> FALSE, stopped |-> TRUE]
    ELSE FilterAndStore(EvaluateNonAggregateAndSortValues(s, querySpec, parsedValue),
                        querySpec, parsedValue)

\* The loop of JoinAndCommitRow; `committed` is the local of that name and
\* `it` the iteration just made.
RECURSIVE JoinLoop(_, _, _, _)
RECURSIVE EndOfIteration(_, _, _, _)
EndOfIteration(it, querySpec, parsedValue, committed) ==
    IF it.stopped THEN [s |-> it.s, ret |-> committed]
    ELSE IF "LeftSideOfJoin" \notin querySpec.m_flags \/ it.s.context.emptyOuterJoin
    THEN [s |-> it.s, ret |-> committed \/ it.passed]
    ELSE JoinLoop([it.s EXCEPT !.context.joinTableRowIdx = @ + 1], querySpec,
                  parsedValue, committed \/ it.passed)

JoinLoop(s, querySpec, parsedValue, committed) ==
    IF /\ "LeftSideOfJoin" \in querySpec.m_flags
       /\ s.context.joinTable # <<>>
       /\ s.context.joinTableRowIdx = Len(s.context.joinTable)
    THEN [s |-> s, ret |-> committed]
    ELSE EndOfIteration(Iteration([s EXCEPT !.context.numRowsMatched = @ + 1],
                                  querySpec, parsedValue),
                        querySpec, parsedValue, committed)

\* The join key of the row: the values of the equality expressions.
JoinKey(s, querySpec, parsedValue) ==
    [i \in 1..Len(querySpec.equalityExprs) |->
        Evaluate(querySpec.equalityExprs[i], s.context, parsedValue, <<>>)]

\* The hash of the join key, the index of its bucket in m_indexedJoin.
JoinIndex(s, querySpec, parsedValue) ==
    XmlRowHash(Len(querySpec.equalityExprs), JoinKey(s, querySpec, parsedValue))

\* The context as JoinAndCommitRow sets it for the loop: the bucket of the
\* join rows as the join table, or the empty outer join.
SetJoin(s, querySpec, m_indexedJoin, index) ==
    IF "LeftSideOfJoin" \notin querySpec.m_flags THEN s
    ELSE IF index \in DOMAIN m_indexedJoin
    THEN [s EXCEPT !.context = SetJoinTable(@, m_indexedJoin[index])]
    ELSE [s EXCEPT !.context.emptyOuterJoin = TRUE]

\* The return of JoinAndCommitRow after the loop.
EndJoin(loop) == [s |-> [loop.s EXCEPT !.context = ResetJoinTable(@)], ret |-> loop.ret]

\* JoinAndCommitRow(m_seqRows.back()); m_indexedJoin maps the hash of a join
\* key to its bucket of rows of the right table.  Without a bucket an inner
\* join returns false at once.
JoinAndCommitRow(s, querySpec, parsedValue, m_indexedJoin) ==
    IF /\ "LeftSideOfJoin" \in querySpec.m_flags
       /\ JoinIndex(s, querySpec, parsedValue) \notin DOMAIN m_indexedJoin
       /\ ~querySpec.outer
    THEN [s |-> s, ret |-> FALSE]
    ELSE EndJoin(JoinLoop(SetJoin(s, querySpec, m_indexedJoin,
                                  JoinIndex(s, querySpec, parsedValue)),
                          querySpec, parsedValue, FALSE))

\* EmitRow after JoinAndCommitRow; `commit` is what that gave.
RecycleRow(commit) ==
    IF ~commit.ret
    THEN RemoveRecycledRow([commit.s EXCEPT
                              !.m_flags = SetFlags(@, "RecycleStorage", TRUE)])
    ELSE commit.s

\* EmitRow of a query without a pivot.
EmitRow(s, querySpec, parsedValue, m_indexedJoin) ==
    RecycleRow(JoinAndCommitRow(AllocRow(s, querySpec, 0), querySpec, parsedValue,
                                m_indexedJoin))

\* The row a RowRef points to, with `value` written at valueIdx.
SetRowValue(s, first, valueIdx, value) ==
    IF first.store = "seq"
    THEN [s EXCEPT !.m_seqRows[first.at][valueIdx + 1] = value]
    ELSE [s EXCEPT !.m_distinctRows[first.at].key[valueIdx + 1] = value]

\* The comparator SortRows hands to std::sort.
SortLess(s, querySpec, left, right) ==
    LET firstSortValue == GetNumValueColumns(querySpec)
        numSortValues == GetNumSortValues(querySpec)
        rev == querySpec.m_reversedStringSorts
        RECURSIVE Less(_)
        Less(i) ==
            IF i > numSortValues THEN FALSE
            ELSE LET cmp == Compare(Deref(s, left.first)[firstSortValue + i],
                                    Deref(s, right.first)[firstSortValue + i])
                 IN  IF cmp < 0 THEN ~rev[i]
                     ELSE IF cmp > 0 THEN rev[i]
                     ELSE Less(i + 1)
    IN  Less(1)

Perms(n) == {p \in [1..n -> 1..n] : \A i, j \in 1..n : i # j => p[i] # p[j]}

\* The requirement of std::sort on its comparator: a strict weak ordering
\* of the elements.
StrictWeakOrdering(elems, Less(_, _)) ==
    LET Equiv(a, b) == ~Less(a, b) /\ ~Less(b, a)
    IN  /\ \A a \in elems : ~Less(a, a)
        /\ \A a, b, c \in elems : Less(a, b) /\ Less(b, c) => Less(a, c)
        /\ \A a, b, c \in elems : Equiv(a, b) /\ Equiv(b, c) => Equiv(a, c)

\* What std::sort can leave in m_rowRefs: with a strict weak ordering a
\* permutation in which no element is less than one before it, equivalent
\* elements in any order; without one, any permutation.
StdSort(seq, Less(_, _)) ==
    LET elems == {seq[i] : i \in 1..Len(seq)}
        results == {[i \in 1..Len(seq) |-> seq[p[i]]] : p \in Perms(Len(seq))}
    IN  IF StrictWeakOrdering(elems, Less)
        THEN {r \in results : \A i, j \in 1..Len(seq) : i < j => ~Less(r[j], r[i])}
        ELSE results

\* SortRows: the aggregate sort arguments are evaluated into the rows, then
\* m_rowRefs is sorted.  The set of the states it can end in.
SortRows(s, querySpec, parsedValue) ==
    LET sortExpr == querySpec.m_columns[querySpec.m_sortColumn].expr
        numArgs == Len(sortExpr.m_args)
        RECURSIVE Keys(_, _)
        Keys(rowIdx, i) ==
            IF rowIdx = 0 THEN s
            ELSE IF i = 0 THEN Keys(rowIdx - 1, numArgs)
            ELSE IF SubtreeContainsAggregate(sortExpr.m_args[i])
            THEN SetRowValue(Keys(rowIdx, i - 1), s.m_rowRefs[rowIdx].first,
                             GetNumValueColumns(querySpec) + i - 1,
                             Evaluate(sortExpr.m_args[i], s.context, parsedValue,
                                      s.m_aggregates[rowIdx]))
            ELSE Keys(rowIdx, i - 1)
        keyed == IF Aggregated(querySpec) THEN Keys(Len(s.m_rowRefs), numArgs) ELSE s
        Less(left, right) == SortLess(keyed, querySpec, left, right)
    IN  {[keyed EXCEPT !.m_rowRefs = sorted] : sorted \in StdSort(keyed.m_rowRefs, Less)}

\* The first part of XmlQuery::OutputStoredRows: the aggregate columns of
\* the rows are evaluated into the rows, or the rows of a query that is not
\* distinct are given their row references.
FinalizeAggregates(s, querySpec, parsedValue) ==
    LET columns == querySpec.m_columns
        top == "TopNRowsSpecified" \in querySpec.m_flags
        aggrRows == IF ~NeedsSorting(querySpec) /\ top
                    THEN Min(Len(s.m_rowRefs), querySpec.m_topNRows)
                    ELSE Len(s.m_rowRefs)
        \* the aggregate columns of the first aggrRows rows are evaluated
        RECURSIVE Results(_, _)
        Results(rowIdx, c) ==
            IF rowIdx = 0 THEN s
            ELSE IF c = 0 THEN Results(rowIdx - 1, Len(columns))
            ELSE IF IsAggregate(columns[c])
            THEN SetRowValue(Results(rowIdx, c - 1), s.m_rowRefs[rowIdx].first,
                             columns[c].valueIdx,
                             Evaluate(columns[c].expr, s.context, parsedValue,
                                      s.m_aggregates[rowIdx]))
            ELSE Results(rowIdx, c - 1)
    IN  IF Aggregated(querySpec) THEN Results(aggrRows, Len(columns))
        ELSE IF ~Distinct(querySpec)
        THEN [s EXCEPT !.m_rowRefs =
                 [rowIdx \in 1..Len(s.m_seqRows) |->
                     [first |-> [store |-> "seq", at |-> rowIdx], second |-> 1]]]
        ELSE s

\* XmlQuery::OutputStoredRows: the set of the states it can end in.
OutputStoredRows(s, querySpec, parsedValue) ==
    LET columns == querySpec.m_columns
        top == "TopNRowsSpecified" \in querySpec.m_flags
        aggrRows == IF ~NeedsSorting(querySpec) /\ top
                    THEN Min(Len(s.m_rowRefs), querySpec.m_topNRows)
                    ELSE Len(s.m_rowRefs)
        aggregateFilters ==
            IF Aggregated(querySpec) /\ aggrRows > 0
            THEN {c \in 1..Len(columns) : IsAggregate(columns[c]) /\ IsFilter(columns[c])}
            ELSE {}
        prepared == FinalizeAggregates(s, querySpec, parsedValue)
        RECURSIVE Callbacks(_, _)
        Callbacks(t, rowIdx) ==
            LET maxRows == IF top THEN Min(Len(t.m_rowRefs), querySpec.m_topNRows)
                           ELSE Len(t.m_rowRefs)
                row == Deref(t, t.m_rowRefs[rowIdx + 1].first)
                outputRowFlag ==
                    \A c \in aggregateFilters : row[columns[c].valueIdx + 1].bval
            IN  IF rowIdx >= maxRows THEN t
                ELSE Callbacks(IF outputRowFlag THEN RowCallback(t, querySpec, rowIdx)
                               ELSE t,
                               rowIdx + 1)
    IN  {Callbacks(sorted, 0) :
            sorted \in IF NeedsSorting(querySpec)
                       THEN SortRows(prepared, querySpec, parsedValue)
                       ELSE {prepared}}

(***************************************************************************)
(* The queries and the inputs of the model.  A query is the list of its    *)
(* column expressions as the expression parser builds them and the rows of *)
(* the right side of its join; the strings are sequences of characters.    *)
(***************************************************************************)
kRef == PathRef("k")

vRef == PathRef("v")

Op1(opcode, arg) == Expr(opcode, <<arg>>)

Op2(opcode, arg0, arg1) == Expr(opcode, <<arg0, arg1>>)

Where(pred) == Op1("OpWhere", pred)

Top(n) == Op1("OpTop", NumberLiteral(n))

First(n) == Op1("OpFirst", NumberLiteral(n))

Sort(args) == Expr("OpSort", args)

DistinctDirective == Expr("OpDistinct", <<>>)

JoinDirective(outer) ==
    Expr("OpJoin", <<StringLiteral(<<"f">>)>> \o (IF outer THEN <<BooleanLiteral(TRUE)>> ELSE <<>>))

JoinWhere == Where(Op2("OpEQ", JoinedPathRef("k2", 1), kRef))

RightRow(w, k2) == <<StringValue(<<w>>), StringValue(<<k2>>)>>

Query(columnSpecs) == [columnSpecs |-> columnSpecs, joinRows |-> <<>>]

JoinQuery(columnSpecs, joinRows) == [columnSpecs |-> columnSpecs, joinRows |-> joinRows]

Queries ==
    << Query(<<kRef, vRef, Where(Op2("OpGT", vRef, NumberLiteral(0)))>>),
       Query(<<kRef, Top(1)>>),
       Query(<<kRef, vRef, Top(0)>>),
       Query(<<kRef, First(1)>>),
       Query(<<kRef, vRef, Where(Op2("OpGT", vRef, NumberLiteral(0))), First(2)>>),
       Query(<<kRef, DistinctDirective>>),
       Query(<<kRef, vRef, DistinctDirective, Top(1)>>),
       Query(<<kRef, Op1("OpSum", vRef), Op1("OpCount", vRef), Op1("OpMaxAggr", vRef),
               Op1("OpMinAggr", vRef), Where(Op2("OpLT", vRef, NumberLiteral(1)))>>),
       Query(<<kRef, Op1("OpMaxAggr", vRef),
               Where(Op2("OpGT", Op1("OpSum", vRef), NumberLiteral(0)))>>),
       Query(<<kRef, Op1("OpSum", vRef), Top(1)>>),
       Query(<<kRef, vRef, Sort(<<Op1("OpReal", vRef)>>)>>),
       Query(<<kRef, vRef, Sort(<<Op1("OpNeg", Op1("OpStr", kRef)), Op1("OpReal", vRef)>>)>>),
       Query(<<kRef, vRef, Sort(<<kRef, Op1("OpNeg", vRef)>>), Top(2)>>),
       Query(<<kRef, vRef, Sort(<<Op2("OpDiv", NumberLiteral(1), vRef)>>)>>),
       Query(<<kRef, Op1("OpSum", vRef), Sort(<<Op1("OpSum", vRef)>>)>>),
       Query(<<kRef, vRef, Sort(<<kRef>>), Where(Op2("OpLT", vRef, NumberLiteral(1))), First(2)>>),
       JoinQuery(<<kRef, JoinedPathRef("w", 0), JoinDirective(FALSE), JoinWhere>>,
                 <<RightRow("x", "a"), RightRow("y", "b")>>),
       JoinQuery(<<kRef, JoinedPathRef("w", 0), JoinDirective(FALSE), JoinWhere, First(1)>>,
                 <<RightRow("x", "a"), RightRow("y", "a")>>),
       JoinQuery(<<kRef, JoinedPathRef("w", 0), JoinDirective(TRUE), JoinWhere>>, <<>>),
       JoinQuery(<<kRef, JoinedPathRef("w", 0), JoinDirective(FALSE), JoinWhere, Sort(<<kRef>>)>>,
                 <<RightRow("x", "a"), RightRow("y", "b")>>),
       Query(<<Expr("OpPivot", <<kRef, vRef>>)>>),
       Query(<<Expr("OpPivot", <<kRef, vRef, BooleanLiteral(TRUE)>>)>>),
       Query(<<Expr("OpPivot", <<kRef, vRef, BooleanLiteral(TRUE)>>), DistinctDirective>>),
       Query(<<Sort(<<kRef>>)>>),
       Query(<<kRef, vRef>>),
       JoinQuery(<<kRef, JoinedPathRef("w", 0), JoinDirective(FALSE), JoinWhere>>, <<>>),
       JoinQuery(<<kRef, JoinedPathRef("w", 0), JoinDirective(TRUE), JoinWhere,
                   Where(Op2("OpGT", vRef, NumberLiteral(0)))>>, <<>>) >>

\* The query specs of the queries; no operator of the catalog declares
\* GatherData.
QuerySpecs == [i \in 1..Len(Queries) |-> ParseColumnSpecs(Queries[i].columnSpecs, FALSE)]

\* XmlDriver::LoadIndexedJoin: no column of the join query is Indexed, so
\* every row of the right side is in the bucket of the hash of no values.
IndexedJoin(joinRows) ==
    IF joinRows = <<>> THEN <<>> ELSE (XmlRowHash(0, <<>>) :> joinRows)

\* The paths of the input an expression refers to.
RECURSIVE PathRefs(_)
PathRefs(expr) ==
    (IF expr.opcode = "OpPathRef" /\ ~expr.joined THEN {expr.ref} ELSE {})
    \cup UNION {PathRefs(expr.m_args[i]) : i \in 1..Len(expr.m_args)}

InputPathRefs(columnSpecs) ==
    UNION {PathRefs(columnSpecs[i]) : i \in 1..Len(columnSpecs)}

\* A record of the input: the character data of its fields k and v.
Records == [k : {<<"a">>, <<"b">>}, v : {<<"-", "1">>, <<"0">>, <<"1">>}]

RECURSIVE SeqsUpTo(_, _)
SeqsUpTo(S, n) ==
    IF n = 0 THEN {<<>>}
    ELSE SeqsUpTo(S, n - 1)
         \cup {Append(q, x) : q \in {r \in SeqsUpTo(S, n - 1) : Len(r) = n - 1}, x \in S}

(***************************************************************************)
(* The matcher: XmlPath::Tag, XmlPath and XmlMatcher.  A tag list is the   *)
(* sequence of the tags of a path, a tag being addressed by its position;  *)
(* next() of the tag at i is the tag at i + 1 unless the tag is the last.  *)
(***************************************************************************)

\* strncasecmp as stringsEqCase calls it, CaseSensitivityMode() being false.
ToLower(name) ==
    CASE name = "K" -> "k" [] name = "V" -> "v" [] name = "A" -> "a" [] name = "B" -> "b"
      [] OTHER -> name

\* stringsEqCase(str, tag, len) && str[len] == '\0'.
stringsEqCase(str, tag) == ToLower(str) = ToLower(tag)

Tag(name, wildCard, first, last) ==
    [m_name |-> name, m_wildcard |-> wildCard, m_first |-> first, m_last |-> last,
     m_relativeParseDepth |-> 0]

RECURSIVE GetRelativeParseDepth(_, _, _)
GetRelativeParseDepth(tagList, i, includeInitialWildcard) ==
    IF tagList[i].m_last THEN 1
    ELSE (IF tagList[i].m_first /\ tagList[i].m_wildcard /\ ~includeInitialWildcard
          THEN 0 ELSE tagList[i].m_relativeParseDepth)
         + GetRelativeParseDepth(tagList, i + 1, FALSE)

\* if (currParseDepth > 0) m_relativeParseDepth++ of the tag at i.
Advance(tagList, i, currParseDepth) ==
    IF currParseDepth > 0 THEN [tagList EXCEPT ![i].m_relativeParseDepth = @ + 1]
    ELSE tagList

\* TagList_MatchStartTag of an advanced tag after the call on next(), which
\* gave `r`: the match of next(), or the stay at this wildcard.
StayAtWildcard(i, currParseDepth, r) ==
    IF r.ret THEN r
    ELSE IF r.tagList[i].m_wildcard /\ r.tagList[i + 1].m_relativeParseDepth = 0
    THEN [r EXCEPT !.ret = TRUE, !.tagList = Advance(r.tagList, i, currParseDepth)]
    ELSE r

\* TagList_MatchStartTag of the tag at i: the return value, the tag list
\* and the out parameter completeMatch.
RECURSIVE TagList_MatchStartTag(_, _, _, _)
TagList_MatchStartTag(tagList, i, tag, currParseDepth) ==
    IF tagList[i].m_relativeParseDepth > 0
    THEN IF ~tagList[i].m_last
         THEN StayAtWildcard(i, currParseDepth,
                  TagList_MatchStartTag(tagList, i + 1, tag,
                      currParseDepth - tagList[i].m_relativeParseDepth))
         ELSE [ret |-> FALSE, tagList |-> tagList, completeMatch |-> FALSE]
    ELSE IF /\ tagList[i].m_wildcard
            /\ ~tagList[i].m_last
            /\ stringsEqCase(tagList[i + 1].m_name, tag)
    THEN TagList_MatchStartTag(Advance(tagList, i, currParseDepth), i + 1, tag,
             currParseDepth
                 - Advance(tagList, i, currParseDepth)[i].m_relativeParseDepth)
    ELSE IF tagList[i].m_wildcard \/ stringsEqCase(tagList[i].m_name, tag)
    THEN [ret |-> TRUE, tagList |-> Advance(tagList, i, currParseDepth),
          completeMatch |-> tagList[i].m_last]
    ELSE [ret |-> FALSE, tagList |-> tagList, completeMatch |-> FALSE]

RECURSIVE TagList_MatchEndTag(_, _, _)
TagList_MatchEndTag(tagList, i, tag) ==
    IF ~tagList[i].m_last /\ tagList[i + 1].m_relativeParseDepth > 0
    THEN TagList_MatchEndTag(tagList, i + 1, tag)
    ELSE IF /\ tagList[i].m_relativeParseDepth > 0
            /\ (tagList[i].m_wildcard \/ stringsEqCase(tagList[i].m_name, tag))
    THEN [ret |-> TRUE, tagList |-> [tagList EXCEPT ![i].m_relativeParseDepth = @ - 1]]
    ELSE [ret |-> FALSE, tagList |-> tagList]

\* Tag_Reset(-1) of the tag at i: the counters from i on are zeroed.
ClearFrom(tagList, i) ==
    [j \in 1..Len(tagList) |->
        IF j >= i THEN [tagList[j] EXCEPT !.m_relativeParseDepth = 0] ELSE tagList[j]]

RECURSIVE Tag_Reset(_, _, _)
Tag_Reset(tagList, i, rollbackDepth) ==
    IF rollbackDepth = 0 - 1 THEN ClearFrom(tagList, i)
    ELSE IF rollbackDepth < tagList[i].m_relativeParseDepth
    THEN ClearFrom([tagList EXCEPT ![i].m_relativeParseDepth = rollbackDepth], i + 1)
    ELSE IF ~tagList[i].m_last
    THEN Tag_Reset(tagList, i + 1, rollbackDepth - tagList[i].m_relativeParseDepth)
    ELSE tagList

Tag_Rollback(tagList, i, setParseDepth) ==
    ClearFrom([tagList EXCEPT ![i].m_relativeParseDepth = setParseDepth], i + 1)

\* XmlRowMatchState::Reset.
RowStateReset ==
    [matchOrder |-> 0, currParseDepth |-> 0, searchingForEndTagCnt |-> 0,
     matchType |-> "NotAllMatched"]

\* XmlUtils::Split(pathSpec, ".", "{}"): the path specs of the queries
\* are one tag.
Split(pathSpec) == <<pathSpec>>

\* The constructor of XmlPath: the wildcard prefix is inserted and the tag
\* list made.  The path refs of the queries are read for their data and
\* none is under sync, so m_flags starts empty.  m_str is the sval of the
\* parsed value of the path ref and `Matched` the flag of the path ref.
XmlPath(pathSpec) ==
    LET tags == IF Head(Split(pathSpec)) # "*" THEN <<"*">> \o Split(pathSpec)
                ELSE Split(pathSpec)
    IN  [pathSpec |-> pathSpec, m_flags |-> {}, Matched |-> FALSE, m_str |-> <<>>,
         m_tagList |-> [i \in 1..Len(tags) |->
                           Tag(tags[i], tags[i] = "*", i = 1, i = Len(tags))],
         m_matchState |-> "Uninitialized", m_matchOrder |-> 0 - 1,
         m_localMatchDepth |-> 0 - 1, m_matchDepth |-> 0 - 1, m_mismatchDepth |-> 0,
         endMatchExprs |-> 0]

\* The constructor on a path ref whose path spec has the tags `tags`, whose
\* flags NoData and Sync are `flags`, and which has endMatchExprs end match
\* expressions.
XmlPathOf(pathRef) ==
    LET tags == IF Head(pathRef.tags) # "*" THEN <<"*">> \o pathRef.tags
                ELSE pathRef.tags
    IN  [XmlPath(pathRef.pathSpec) EXCEPT
            !.m_flags = pathRef.flags \cap {"NoData", "Sync"},
            !.m_tagList = [i \in 1..Len(tags) |->
                              Tag(tags[i], tags[i] = "*", i = 1, i = Len(tags))],
            !.endMatchExprs = pathRef.endMatchExprs]

StartMatch(path) == [path EXCEPT !.m_matchState = "SearchingForStartTag"]

ClearValues(path, hardClear) ==
    LET cleared == [path EXCEPT !.Matched = FALSE, !.m_localMatchDepth = 0 - 1,
                                !.m_matchDepth = 0 - 1, !.m_str = <<>>]
    IN  IF hardClear THEN StartMatch([cleared EXCEPT !.m_matchOrder = 0 - 1])
        ELSE cleared

Path_Reset(path, parseDepth, matchOrderStart) ==
    [(IF path.m_matchOrder >= matchOrderStart THEN ClearValues(path, TRUE) ELSE path)
        EXCEPT !.m_tagList = Tag_Reset(@, 1, parseDepth)]

Path_Rollback(path, setParseDepth, matchOrder) ==
    IF path.m_matchOrder >= matchOrder
    THEN [StartMatch([ClearValues(path, TRUE) EXCEPT !.m_mismatchDepth = 0])
             EXCEPT !.m_tagList = Tag_Rollback(@, 1, setParseDepth)]
    ELSE path

IsMatched(path) ==
    ~(\/ path.m_matchState = "SearchingForEndTag"
      \/ ~path.Matched /\ path.m_str = <<>>)

AppendValue(path, value) ==
    IF "NoData" \notin path.m_flags /\ path.m_matchState = "SearchingForEndTag"
       /\ Len(value) > 0
    THEN [path EXCEPT !.m_str = @ \o value]
    ELSE path

\* The start tag matched the whole path: the match order, the value is
\* cleared and appended to until the end tag.  No expression of the
\* queries depends on the start match.
CompleteStartMatch(path, rowState, relativeDepth) ==
    LET ordered == IF path.m_matchOrder = 0 - 1
                   THEN [path |-> [path EXCEPT !.m_matchOrder = rowState.matchOrder],
                         rowState |-> [rowState EXCEPT !.matchOrder = @ + 1]]
                   ELSE IF path.m_matchOrder < rowState.matchOrder
                   THEN [path |-> path,
                         rowState |-> [rowState EXCEPT
                                          !.matchOrder = path.m_matchOrder + 1]]
                   ELSE [path |-> path, rowState |-> rowState]
    IN  [path |-> [ordered.path EXCEPT
                      !.m_str = <<>>, !.m_matchState = "SearchingForEndTag",
                      !.m_matchDepth = rowState.currParseDepth,
                      !.m_flags = @ \cup {"ExistsInInput"}, !.Matched = TRUE],
         rowState |-> [ordered.rowState EXCEPT !.searchingForEndTagCnt = @ + 1],
         relativeDepth |-> GetRelativeParseDepth(path.m_tagList, 1, FALSE),
         matched |-> TRUE]

\* Path_MatchStartTag after TagList_MatchStartTag, which gave `r`.
AfterTagListStart(path, rowState, relativeDepth, r) ==
    IF ~r.ret
    THEN [path |-> [path EXCEPT !.m_tagList = r.tagList, !.m_mismatchDepth = @ + 1],
          rowState |-> rowState, relativeDepth |-> relativeDepth, matched |-> FALSE]
    ELSE IF ~r.completeMatch
    THEN [path |-> [path EXCEPT !.m_tagList = r.tagList,
                                !.m_matchState = "CompletingStartTag"],
          rowState |-> rowState, relativeDepth |-> relativeDepth, matched |-> FALSE]
    ELSE CompleteStartMatch([path EXCEPT !.m_tagList = r.tagList], rowState,
                            relativeDepth)

\* relativeDepth is m_context->relativeDepth.
Path_MatchStartTag(path, rowState, relativeDepth, tag) ==
    IF path.m_matchState \in {"FoundEndTag", "SearchingForEndTag"}
    THEN [path |-> path, rowState |-> rowState, relativeDepth |-> relativeDepth,
          matched |-> FALSE]
    ELSE IF path.m_mismatchDepth > 0
    THEN [path |-> [path EXCEPT !.m_mismatchDepth = @ + 1], rowState |-> rowState,
          relativeDepth |-> relativeDepth, matched |-> FALSE]
    ELSE AfterTagListStart(path, rowState, relativeDepth,
             TagList_MatchStartTag(path.m_tagList, 1, tag, rowState.currParseDepth))

\* Path_MatchEndTag after TagList_MatchEndTag, which gave `r`.  No
\* expression of the queries depends on the end match.
AfterTagListEnd(path, rowState, relativeDepth, r) ==
    IF r.ret /\ path.m_matchState = "SearchingForEndTag"
    THEN [path |-> [path EXCEPT
                      !.m_tagList = r.tagList,
                      !.m_str = TrimWhitespace(@),
                      !.m_matchState = "FoundEndTag",
                      !.m_localMatchDepth =
                          rowState.currParseDepth
                              - GetRelativeParseDepth(r.tagList, 1, FALSE)],
          rowState |-> [rowState EXCEPT !.searchingForEndTagCnt = @ - 1],
          relativeDepth |-> GetRelativeParseDepth(r.tagList, 1, FALSE),
          matched |-> TRUE]
    ELSE [path |-> [path EXCEPT !.m_tagList = r.tagList], rowState |-> rowState,
          relativeDepth |-> relativeDepth, matched |-> FALSE]

Path_MatchEndTag(path, rowState, relativeDepth, tag) ==
    IF path.m_mismatchDepth > 0
    THEN [path |-> [path EXCEPT !.m_mismatchDepth = @ - 1], rowState |-> rowState,
          relativeDepth |-> relativeDepth, matched |-> FALSE]
    ELSE AfterTagListEnd(path, rowState, relativeDepth,
                         TagList_MatchEndTag(path.m_tagList, 1, tag))

\* The matcher with the context it writes: m is a record of m_paths,
\* m_rowState, context and ret, the return value of the call.  `r` is what
\* the call on the path at i gave.
SetPath(m, i, r) ==
    [m EXCEPT !.m_paths[i] = r.path, !.m_rowState = r.rowState,
              !.context.relativeDepth = r.relativeDepth, !.ret = @ \/ r.matched]

\* for (auto& path : m_paths) matchDetected |= path->Path_MatchStartTag(..)
RECURSIVE StartTagPaths(_, _, _)
StartTagPaths(m, tag, i) ==
    IF i > Len(m.m_paths) THEN m
    ELSE StartTagPaths(SetPath(m, i, Path_MatchStartTag(m.m_paths[i], m.m_rowState,
                                         m.context.relativeDepth, tag)),
                       tag, i + 1)

RECURSIVE EndTagPaths(_, _, _)
EndTagPaths(m, tag, i) ==
    IF i > Len(m.m_paths) THEN m
    ELSE EndTagPaths(SetPath(m, i, Path_MatchEndTag(m.m_paths[i], m.m_rowState,
                                       m.context.relativeDepth, tag)),
                     tag, i + 1)

\* The paths sequentially later than the match are reset.
ResetLater(m) ==
    IF m.ret
    THEN [m EXCEPT !.m_paths =
             [i \in 1..Len(@) |->
                 Path_Reset(@[i], m.m_rowState.currParseDepth, m.m_rowState.matchOrder)]]
    ELSE m

SetAppendingValues(m) ==
    [m EXCEPT !.context.appendingValues = @ \/ m.m_rowState.searchingForEndTagCnt > 0]

\* The head of MatchStartTag up to the loop over the paths.
EnterTag(m) ==
    [m EXCEPT !.m_rowState.matchType = "NotAllMatched",
              !.m_rowState.currParseDepth = @ + 1, !.ret = FALSE]

MatchStartTag(m, tag) ==
    IF Len(m.m_paths) > 0
    THEN SetAppendingValues(ResetLater(StartTagPaths(EnterTag(m), tag, 1)))
    ELSE SetAppendingValues([m EXCEPT !.m_rowState.matchType = "NotAllMatched",
                                      !.ret = FALSE])

\* m_rowState->currParseDepth-- after the paths.
LeaveTag(m) == [m EXCEPT !.m_rowState.currParseDepth = @ - 1]

MatchEndTag(m, tag) ==
    IF Len(m.m_paths) > 0
    THEN SetAppendingValues(LeaveTag(EndTagPaths([m EXCEPT !.ret = FALSE], tag, 1)))
    ELSE SetAppendingValues([m EXCEPT !.ret = FALSE])

\* The loop of GetMatchType from the path at i on; allMatched is the local
\* of that name.
RECURSIVE AllMatchedFrom(_, _, _)
AllMatchedFrom(paths, i, allMatched) ==
    IF i > Len(paths) THEN allMatched
    ELSE IF "Sync" \in paths[i].m_flags /\ IsMatched(paths[i]) THEN TRUE
    ELSE IF \/ /\ "NoData" \in paths[i].m_flags
               /\ paths[i].endMatchExprs = 0
               /\ paths[i].m_matchState = "SearchingForEndTag"
            \/ IsMatched(paths[i])
    THEN AllMatchedFrom(paths, i + 1, TRUE)
    ELSE FALSE

\* GetMatchType: withNoDataMatches is never set.
GetMatchType(m) ==
    [m EXCEPT !.m_rowState.matchType =
        IF AllMatchedFrom(m.m_paths, 1, Len(m.m_paths) > 0) THEN "AllMatched"
        ELSE "NotAllMatched"]

\* XmlUtils::GetLine over the rest `str` of the stream, `line` being the
\* line read so far: the lines end at \n, \r\n or \r, and a last line
\* without an ending is a line when it is not empty.
RECURSIVE GetLines(_, _)
GetLines(str, line) ==
    IF str = <<>> THEN (IF line = <<>> THEN <<>> ELSE <<line>>)
    ELSE IF Head(str) = "\n" THEN <<line>> \o GetLines(Tail(str), <<>>)
    ELSE IF Head(str) = "\r"
    THEN <<line>> \o GetLines(IF Tail(str) # <<>> /\ Head(Tail(str)) = "\n"
                              THEN Tail(Tail(str)) ELSE Tail(str), <<>>)
    ELSE GetLines(Tail(str), Append(line, Head(str)))

\* The blanks from position `pos` of `str` on, at most `most` of them.
RECURSIVE CountSpaces(_, _, _)
CountSpaces(str, pos, most) ==
    IF pos <= Len(str) /\ str[pos] \in Whitespace /\ most > 0
    THEN 1 + CountSpaces(str, pos + 1, most - 1)
    ELSE 0

\* The position of the first line feed of str, which has one.
FirstLineFeed(str) ==
    CHOOSE i \in 1..Len(str) : str[i] = "\n" /\ \A j \in 1..(i - 1) : str[j] # "\n"

\* The lines after the first without their first character and the indent
\* that follows it, each ended by a line feed.
RECURSIVE Unindent(_, _, _)
Unindent(lines, i, indentLength) ==
    IF i > Len(lines) THEN <<>>
    ELSE SubSeq(lines[i], 2 + CountSpaces(lines[i], 2, indentLength), Len(lines[i]))
         \o <<"\n">> \o Unindent(lines, i + 1, indentLength)

\* XmlPath::RemoveValueIndents: a value that is an XML tree spread over
\* lines has the first-order indent taken from its lines.
RemoveValueIndents(str) ==
    IF str # <<>> /\ Head(str) = "<" /\ \E i \in 1..Len(str) : str[i] = "\n"
    THEN IF CountSpaces(str, FirstLineFeed(str) + 1, Len(str)) - 2 > 0
         THEN Unindent(GetLines(str, <<>>), 2,
                       CountSpaces(str, FirstLineFeed(str) + 1, Len(str)) - 2)
         ELSE str
    ELSE str

\* XmlMatcher::CommitMatch.
CommitMatch(m) ==
    [m EXCEPT !.m_paths =
        [i \in 1..Len(@) |-> StartMatch([@[i] EXCEPT !.m_str = RemoveValueIndents(@)])]]

\* XmlMatcher::Reset: the row state and the paths are reset and the
\* start tag of the synthetic root is matched.
MatcherReset(m) ==
    MatchStartTag([m EXCEPT !.m_rowState = RowStateReset,
                            !.m_paths = [i \in 1..Len(@) |->
                                            Path_Reset(@[i], 0 - 1, 0 - 1)]],
                  "__root")

\* XmlParser::ResetPathMatching: a path for each path ref of the input
\* spec, and the constructor of the matcher.  pathSpecs is the sequence in
\* which the unordered map of the path refs gives its path refs.
ResetPathMatching(m, pathSpecs) ==
    MatcherReset([m EXCEPT !.m_paths = [i \in 1..Len(pathSpecs) |->
                                           XmlPath(pathSpecs[i])]])

\* The sequences an unordered map with the keys `names` can give.
IterationOrders(names) ==
    {order \in [1..Cardinality(names) -> names] :
        \A i, j \in 1..Cardinality(names) : order[i] = order[j] => i = j}

\* The parsed values of the path refs k and v: the value of a path is bound
\* to the parsed value of its path ref.
ParsedValues(paths) ==
    [name \in {"k", "v"} |->
        IF \E i \in 1..Len(paths) : paths[i].pathSpec = name
        THEN paths[CHOOSE i \in 1..Len(paths) : paths[i].pathSpec = name].m_str
        ELSE <<>>]

\* Redirect(pos, len, AppendValues); the parser does not echo its input.
Redirect(m, text) ==
    [m EXCEPT !.m_paths = [i \in 1..Len(@) |-> AppendValue(@[i], text)]]

(***************************************************************************)
(* The input of XmlParser::Parse is the sequence of what the calls of Scan *)
(* give: the characters before a tag, which Scan redirects, and the tag    *)
(* with its label.                                                         *)
(***************************************************************************)
Token(chars, kind, label, selfTerminating) ==
    [chars |-> chars, kind |-> kind, label |-> label,
     selfTerminating |-> selfTerminating]

\* The text of the tag from tagBeg to tagEnd; a label is one character.
TagText(token) ==
    <<"<">> \o (IF token.kind = "end" THEN <<"/">> ELSE <<>>) \o <<token.label>>
    \o (IF token.selfTerminating THEN <<"/">> ELSE <<>>) \o <<">">>

\* Scan: the characters up to the tag are redirected, to the values of
\* the paths when appendingValues is set.
ScanChars(m, token) ==
    IF token.chars # <<>> /\ m.context.appendingValues THEN Redirect(m, token.chars)
    ELSE m

\* Parse at a start tag up to GetMatchType, which never gives
\* AllMatchedWithNoDataMatches; the queries have no root node number.
AppendStartTag(m, token) ==
    IF m.context.appendingValues
    THEN [Redirect(m, TagText(token)) EXCEPT !.context.appendingValues = FALSE]
    ELSE m

OnStartTag(m, token) ==
    GetMatchType(MatchStartTag(AppendStartTag(m, token), token.label))

\* The query of the parser with the context the matcher has written, and
\* the parser with the query `s` after a call of the query.
QueryOf(m) == [m.query EXCEPT !.context = m.context]

SetQuery(m, s) == [m EXCEPT !.query = s, !.context = s.context]

\* m_matcher->CommitMatch(); m_query->EmitRow() when all paths matched.
EmitIfAllMatched(m, querySpec, m_indexedJoin) ==
    IF m.m_rowState.matchType = "AllMatched"
    THEN SetQuery(CommitMatch(m),
                  EmitRow(QueryOf(m), querySpec,
                          ParsedValues(CommitMatch(m).m_paths), m_indexedJoin))
    ELSE m

AppendEndTag(m, token) ==
    IF m.context.appendingValues THEN Redirect(m, TagText(token)) ELSE m

\* Parse at an end tag after MatchEndTag, which left `m`.
AfterMatchEndTag(m, token, querySpec, m_indexedJoin) ==
    IF m.ret
    THEN EmitIfAllMatched(GetMatchType(AppendEndTag(m, token)), querySpec,
                          m_indexedJoin)
    ELSE AppendEndTag(m, token)

\* Parse at an end tag up to the test of Control-C; the queries have no
\* pivot, so XmlQuery::OnEndTag does nothing.
OnEndTag(m, token, querySpec, m_indexedJoin) ==
    AfterMatchEndTag(MatchEndTag([m EXCEPT !.context.appendingValues = FALSE],
                                 token.label),
                     token, querySpec, m_indexedJoin)

(***************************************************************************)
(* The documents: a root element r with a child o for each record, and in  *)
(* each o the fields k and v with the character data of the record.        *)
(***************************************************************************)
KTexts == {<<"a">>, <<" ", "b", "\n">>}

VTexts == {<<"x">>, <<"y", "\r", "\n">>, <<"\r", "\n", "x", "\t">>, <<>>}

XmlRecords == [k : KTexts, v : VTexts]

\* How a document is written: with an XML declaration or not, the
\* characters between its elements, the tag of the field k, and whether an
\* element without character data is one self-terminating tag.
Layouts ==
    {[prolog |-> FALSE, indent |-> <<>>, kTag |-> "k", selfTerminate |-> FALSE],
     [prolog |-> TRUE, indent |-> <<"\n", " ">>, kTag |-> "K", selfTerminate |-> TRUE]}

Element(layout, label, text) ==
    IF text = <<>> /\ layout.selfTerminate
    THEN <<Token(layout.indent, "start", label, TRUE)>>
    ELSE <<Token(layout.indent, "start", label, FALSE), Token(text, "end", label, FALSE)>>

RECURSIVE RecordElements(_, _, _)
RecordElements(records, layout, i) ==
    IF i > Len(records) THEN <<>>
    ELSE <<Token(layout.indent, "start", "o", FALSE)>>
         \o Element(layout, layout.kTag, records[i].k)
         \o Element(layout, "v", records[i].v)
         \o <<Token(layout.indent, "end", "o", FALSE)>>
         \o RecordElements(records, layout, i + 1)

Document(records, layout) ==
    (IF layout.prolog THEN <<Token(<<>>, "special", "?", FALSE)>> ELSE <<>>)
    \o <<Token(layout.indent, "start", "r", FALSE)>>
    \o RecordElements(records, layout, 1)
    \o <<Token(layout.indent, "end", "r", FALSE)>>

(***************************************************************************)
(* XmlQuerySpec::ParseColumnSpecs with the names of the columns, the       *)
(* references between columns and the checks that reject a query.  A       *)
(* column spec is the names in front of its colon (none without a colon),  *)
(* its text, and its expression, in which an identifier is a PathRef until *)
(* ParseRef has classified it.  A node of an expression is addressed by    *)
(* the positions of the arguments that lead to it.                         *)
(***************************************************************************)
ColumnSpec(names, text, expr) == [names |-> names, text |-> text, expr |-> expr]

\* The operators with the flag OnceOnly among those of the model.
OnceOnlyOps == {"OpFirst", "OpTop", "OpSort", "OpDistinct", "OpJoin", "OpPivot"}

\* XmlQuerySpec::GetColumn: the column m_colMap holds under the lower-case
\* name, 0 for nullptr.  Columns are appended, and m_colMap keeps the column
\* that was inserted first under a key.
GetColumn(m_columns, colName) ==
    IF \E i \in 1..Len(m_columns) : ToLower(m_columns[i].name) = ToLower(colName)
    THEN CHOOSE i \in 1..Len(m_columns) :
            /\ ToLower(m_columns[i].name) = ToLower(colName)
            /\ \A j \in 1..(i - 1) : ToLower(m_columns[j].name) # ToLower(colName)
    ELSE 0

\* m_allColumnNames after the first pass of ParseColumnSpecs: the explicit
\* names, and the empty name for a column spec without them.
RECURSIVE AllColumnNames(_)
AllColumnNames(columnSpecs) ==
    IF columnSpecs = <<>> THEN <<>>
    ELSE AllColumnNames(SubSeq(columnSpecs, 1, Len(columnSpecs) - 1))
         \o (IF columnSpecs[Len(columnSpecs)].names = <<>> THEN <<"">>
             ELSE columnSpecs[Len(columnSpecs)].names)

IsBindableColumnName(name, m_currentColumnNames, m_allColumnNames) ==
    /\ \A i \in 1..Len(m_currentColumnNames) : ~stringsEqCase(name, m_currentColumnNames[i])
    /\ \E i \in 1..Len(m_allColumnNames) : stringsEqCase(name, m_allColumnNames[i])

\* ParseExpr with ParseRef: an identifier that is bindable becomes a
\* temporary column reference of that name, any other stays a path
\* reference.
RECURSIVE ParseRefs(_, _, _)
ParseRefs(expr, m_currentColumnNames, m_allColumnNames) ==
    IF expr.opcode = "OpPathRef" /\ ~expr.joined
       /\ IsBindableColumnName(expr.ref, m_currentColumnNames, m_allColumnNames)
    THEN [expr EXCEPT !.opcode = "OpColumnRef"]
    ELSE [expr EXCEPT !.m_args =
            [i \in 1..Len(expr.m_args) |->
                ParseRefs(expr.m_args[i], m_currentColumnNames, m_allColumnNames)]]

\* The duplicate std::find looks for among the names of one column spec:
\* the strings are compared as they are.
DuplicateAmong(names) ==
    \E i, j \in 1..Len(names) : i < j /\ names[i] = names[j]

\* ParseColumnNames: the error it raises ("" for none) given the columns
\* inserted so far.
ParseColumnNames(columnSpec, m_columns) ==
    IF DuplicateAmong(columnSpec.names) THEN "Duplicate column name"
    ELSE IF columnSpec.names = <<>> /\ GetColumn(m_columns, columnSpec.text) # 0
    THEN "Duplicate column"
    ELSE IF \E i \in 1..Len(columnSpec.names) :
                GetColumn(m_columns, columnSpec.names[i]) # 0
    THEN "Duplicate column name"
    ELSE ""

\* The name of the column of a column spec: the override of
\* HandleColumnNameOverrides, else the first name, else the text.
ColumnName(columnSpec) ==
    IF columnSpec.expr.opcode = "OpPivot" THEN "__column_pivot"
    ELSE IF columnSpec.expr.opcode = "OpJoin" THEN "__column_join"
    ELSE IF columnSpec.names # <<>> THEN columnSpec.names[1]
    ELSE columnSpec.text

\* The state of ParseColumnSpecs: the columns, the error raised ("" for
\* none), whether an assert has failed, and whether a loop does not end.
\* `crashed` tells that a null pointer was dereferenced, `flags` holds the
\* flags of the expression nodes once PostprocessColumnExprs has set them,
\* and `joinColumns` is m_joinSpec.columns.
ParseState(m_columns) ==
    [m_columns |-> m_columns, error |-> "", assertFailed |-> FALSE, hangs |-> FALSE,
     crashed |-> FALSE, flags |-> <<>>, joinColumns |-> <<>>]

Raise(st, error) == [st EXCEPT !.error = error]

\* ParseColumnSpecs goes no further: an error was thrown, a loop does not
\* end, or the process has crashed.
Stopped(st) == st.error # "" \/ st.hangs \/ st.crashed

\* InsertColumn: the assert on the name, then the column is appended.
InsertColumn(st, column) ==
    [st EXCEPT !.m_columns = Append(@, column),
               !.assertFailed = @ \/ GetColumn(st.m_columns, column.name) # 0]

\* The error PostprocessColumnExprs raises at the root of the expression of
\* a column spec.
PostprocessError(columnSpec, m_columns) ==
    IF /\ columnSpec.expr.opcode \in OnceOnlyOps
       /\ \E i \in 1..Len(m_columns) : m_columns[i].expr.opcode = columnSpec.expr.opcode
    THEN "Expression can only be used once"
    ELSE IF columnSpec.expr.opcode # "OpPivot" /\ Len(columnSpec.names) > 1
    THEN "Multiple column names only valid for pivot function"
    ELSE ""

\* The second pass of ParseColumnSpecs at the column spec i: ParseColumnExpr
\* and InsertColumn.
ParseAndInsert(st, columnSpecs, i) ==
    IF Stopped(st) THEN st
    ELSE IF ParseColumnNames(columnSpecs[i], st.m_columns) # ""
    THEN Raise(st, ParseColumnNames(columnSpecs[i], st.m_columns))
    ELSE IF PostprocessError(columnSpecs[i], st.m_columns) # ""
    THEN Raise(st, PostprocessError(columnSpecs[i], st.m_columns))
    ELSE InsertColumn(st, [name |-> ColumnName(columnSpecs[i]),
                           expr |-> ParseRefs(columnSpecs[i].expr, columnSpecs[i].names,
                                              AllColumnNames(columnSpecs)),
                           names |-> columnSpecs[i].names])

RECURSIVE SecondPass(_, _)
SecondPass(columnSpecs, n) ==
    IF n = 0 THEN ParseState(<<>>)
    ELSE ParseAndInsert(SecondPass(columnSpecs, n - 1), columnSpecs, n)

\* The first pass of ParseColumnSpecs: ParseColumnNames of every column
\* spec, no column being inserted yet.
FirstPassError(columnSpecs) ==
    IF \E i \in 1..Len(columnSpecs) : DuplicateAmong(columnSpecs[i].names)
    THEN "Duplicate column name" ELSE ""

\* The node of an expression at a path, and the expression with the node at
\* a path replaced.
RECURSIVE NodeAt(_, _)
NodeAt(expr, path) ==
    IF path = <<>> THEN expr ELSE NodeAt(expr.m_args[path[1]], Tail(path))

RECURSIVE SetNodeAt(_, _, _)
SetNodeAt(expr, path, node) ==
    IF path = <<>> THEN node
    ELSE [expr EXCEPT !.m_args[path[1]] = SetNodeAt(@, Tail(path), node)]

\* The paths of the nodes of an expression in the order in which
\* PostprocessColumnExprs pushes them to m_exprs: a node before its
\* arguments.
RECURSIVE Paths(_)
Paths(expr) ==
    LET RECURSIVE Args(_)
        Args(i) == IF i = 0 THEN <<>>
                   ELSE Args(i - 1) \o [j \in 1..Len(Paths(expr.m_args[i])) |->
                                           <<i>> \o Paths(expr.m_args[i])[j]]
    IN  <<<<>>>> \o Args(Len(expr.m_args))

\* m_exprs: the nodes of the columns, a node being the position of its
\* column followed by its path.
RECURSIVE Exprs(_, _)
Exprs(m_columns, n) ==
    IF n = 0 THEN <<>>
    ELSE Exprs(m_columns, n - 1)
         \o [j \in 1..Len(Paths(m_columns[n].expr)) |-> <<n>> \o Paths(m_columns[n].expr)[j]]

Node(m_columns, id) == NodeAt(m_columns[id[1]].expr, Tail(id))

\* The loop of PostProcessRefs that follows the column references at the
\* roots of the columns, `column` being the local of that name and `seen`
\* the values it has had: a value it takes again is taken for ever.
RECURSIVE FollowColumnRefs(_, _, _, _)
FollowColumnRefs(st, colName, column, seen) ==
    IF st.m_columns[column].expr.opcode # "OpColumnRef"
    THEN [st |-> st, column |-> column]
    ELSE IF GetColumn(st.m_columns, st.m_columns[column].expr.ref) = 0
    THEN [st |-> [st EXCEPT !.crashed = TRUE], column |-> column]
    ELSE IF st.m_columns[GetColumn(st.m_columns, st.m_columns[column].expr.ref)].name = colName
    THEN [st |-> Raise(st, "Circular column reference"), column |-> column]
    ELSE IF GetColumn(st.m_columns, st.m_columns[column].expr.ref) \in seen
    THEN [st |-> [st EXCEPT !.hangs = TRUE], column |-> column]
    ELSE FollowColumnRefs(st, colName,
                          GetColumn(st.m_columns, st.m_columns[column].expr.ref),
                          seen \cup {GetColumn(st.m_columns, st.m_columns[column].expr.ref)})

\* expr->SetColumnRef(column): the reference is to the column itself.
SetColumnRef(walk, id) ==
    IF Stopped(walk.st) THEN walk.st
    ELSE [walk.st EXCEPT !.m_columns[id[1]].expr =
            SetNodeAt(walk.st.m_columns[id[1]].expr, Tail(id),
                      [Node(walk.st.m_columns, id) EXCEPT
                          !.ref = walk.st.m_columns[walk.column].name,
                          !.index = walk.column])]

\* The case OpColumnRef of PostProcessRefs for the node `id`; GetColumn of a
\* name no column has gives nullptr, which is dereferenced.
ResolveColumnRef(st, id) ==
    IF Stopped(st) \/ Node(st.m_columns, id).opcode # "OpColumnRef" THEN st
    ELSE IF GetColumn(st.m_columns, Node(st.m_columns, id).ref) = 0
    THEN [st EXCEPT !.crashed = TRUE]
    ELSE SetColumnRef(FollowColumnRefs(st, Node(st.m_columns, id).ref,
                                       GetColumn(st.m_columns, Node(st.m_columns, id).ref),
                                       {GetColumn(st.m_columns, Node(st.m_columns, id).ref)}),
                      id)

RECURSIVE ResolveColumnRefs(_, _, _)
ResolveColumnRefs(st, m_exprs, n) ==
    IF n = 0 THEN st
    ELSE ResolveColumnRef(ResolveColumnRefs(st, m_exprs, n - 1), m_exprs[n])

\* The error PostProcessRefs raises when a join has no joined path.
MissingJoinPathRef(m_columns) ==
    IF /\ \E c \in 1..Len(m_columns) : m_columns[c].expr.opcode = "OpJoin"
       /\ ~\E i \in 1..Len(Exprs(m_columns, Len(m_columns))) :
              /\ Node(m_columns, Exprs(m_columns, Len(m_columns))[i]).opcode = "OpPathRef"
              /\ Node(m_columns, Exprs(m_columns, Len(m_columns))[i]).joined
    THEN "A join requires at least one joined path reference"
    ELSE ""

\* The error PostProcessRefs raises when the query has no path of the
\* input, or a join no joined path.
MissingPathRef(m_columns) ==
    IF \E i \in 1..Len(Exprs(m_columns, Len(m_columns))) :
            /\ Node(m_columns, Exprs(m_columns, Len(m_columns))[i]).opcode = "OpPathRef"
            /\ ~Node(m_columns, Exprs(m_columns, Len(m_columns))[i]).joined
    THEN MissingJoinPathRef(m_columns)
    ELSE IF \E c \in 1..Len(m_columns) : m_columns[c].expr.opcode = "OpJoin"
    THEN "A join requires at least one input path reference"
    ELSE IF \E c \in 1..Len(m_columns) : m_columns[c].expr.opcode = "OpSort"
    THEN "A sort requires at least one input path reference"
    ELSE IF \E c \in 1..Len(m_columns) : m_columns[c].expr.opcode = "OpDistinct"
    THEN "Use of distinct requires at least one input path reference"
    ELSE MissingJoinPathRef(m_columns)

PostProcessRefs(st) ==
    IF Stopped(st) THEN st
    ELSE IF MissingPathRef(st.m_columns) # "" THEN Raise(st, MissingPathRef(st.m_columns))
    ELSE ResolveColumnRefs(st, Exprs(st.m_columns, Len(st.m_columns)),
                           Len(Exprs(st.m_columns, Len(st.m_columns))))

\* InsertNewColumn of the pivoter: a literal column of the name.
PivotResultColumn(colName) ==
    [name |-> colName, expr |-> Expr("OpLiteral", <<>>), names |-> <<>>]

RECURSIVE InsertNewColumns(_, _, _)
InsertNewColumns(st, columnNames, n) ==
    IF n = 0 THEN st
    ELSE IF columnNames[n] = "..." THEN InsertNewColumns(st, columnNames, n - 1)
    ELSE InsertColumn(InsertNewColumns(st, columnNames, n - 1),
                      PivotResultColumn(columnNames[n]))

\* XmlPivoter::BindColumns for the pivot column when the query has one; the
\* flag SubtreeContainsAggregate is on the aggregate operators only at this
\* point.
BindColumns(st) ==
    IF Stopped(st) \/ GetColumn(st.m_columns, "__column_pivot") = 0 THEN st
    ELSE IF st.m_columns[GetColumn(st.m_columns, "__column_pivot")].names = <<>>
    THEN Raise(st, "Pivot function requires column names, which can include spread (...)")
    ELSE IF st.m_columns[GetColumn(st.m_columns, "__column_pivot")].expr.m_args[1].opcode
                \in AggregateOps
    THEN Raise(st, "Pivot names argument must not contain aggregate functions")
    ELSE IF st.m_columns[GetColumn(st.m_columns, "__column_pivot")].expr.m_args[2].opcode
                \in AggregateOps
    THEN Raise(st, "Pivot values argument must not contain aggregate functions")
    ELSE InsertNewColumns(st, st.m_columns[GetColumn(st.m_columns, "__column_pivot")].names,
                          Len(st.m_columns[GetColumn(st.m_columns, "__column_pivot")].names))

\* The flags PostprocessColumnExprs has set on the nodes.
PostprocessFlags(node) ==
    (IF node.opcode \in AggregateOps THEN {"SubtreeContainsAggregate"} ELSE {})
    \cup (IF node.opcode = "OpPathRef" /\ ~node.joined
          THEN {"SubtreeContainsInputPathRef"} ELSE {})
    \cup (IF node.opcode = "OpPathRef" /\ node.joined
          THEN {"SubtreeContainsJoinPathRef"} ELSE {})

SetPostprocessFlags(st) ==
    IF Stopped(st) THEN st
    ELSE [st EXCEPT !.flags =
            [id \in {Exprs(st.m_columns, Len(st.m_columns))[i] :
                        i \in 1..Len(Exprs(st.m_columns, Len(st.m_columns)))} |->
                PostprocessFlags(Node(st.m_columns, id))]]

\* The node of an id: of a column of the query, or of the column -id[1] of
\* m_joinSpec.columns.
NodeOf(st, id) ==
    IF id[1] < 0 THEN NodeAt(st.joinColumns[0 - id[1]].expr, Tail(id))
    ELSE Node(st.m_columns, id)

\* The root of the expression of the column a column reference refers to.
ColumnRefTarget(node) == IF node.joined THEN <<0 - node.index>> ELSE <<node.index>>

\* RollupFlags of ValidateStructureAndHoistJoinColumns.
RollupFlags(st, parent, child) ==
    IF Stopped(st) THEN st
    ELSE IF /\ "SubtreeContainsAggregate" \in st.flags[child]
            /\ NodeOf(st, parent).opcode \in AggregateOps
    THEN Raise(st, "Aggregate functions cannot be composed")
    ELSE [st EXCEPT !.flags[parent] =
                        @ \cup (st.flags[child] \cap {"SubtreeContainsAggregate",
                                                       "SubtreeContainsInputPathRef",
                                                       "SubtreeContainsJoinPathRef"}),
                    !.assertFailed =
                        @ \/ {"SubtreeContainsJoinPathRef", "SubtreeContainsInputPathRef"}
                                \subseteq st.flags[child]]

\* The name of the column of m_joinSpec.columns at the position n.
JoinColumnName(n) == <<"__joincolumn_">> \o IntToString(n)

\* The flags of the nodes when the subtree at `id` has become the
\* expression of the column n of m_joinSpec.columns and a new node has
\* taken its place.
HoistedFlags(flags, id, n) ==
    LET moved == {d \in DOMAIN flags : Len(d) >= Len(id) /\ SubSeq(d, 1, Len(id)) = id}
    IN  [d \in (DOMAIN flags \ moved) \cup {id}
               \cup {<<0 - n>> \o SubSeq(m, Len(id) + 1, Len(m)) : m \in moved} |->
            IF d = id THEN {}
            ELSE IF d[1] = 0 - n THEN flags[id \o Tail(d)]
            ELSE flags[d]]

\* HoistJoinExpr of the node `id`: the expression becomes that of a new
\* column of m_joinSpec.columns, and a reference to that column, of the type
\* of the expression, takes its place.
HoistJoinColumn(st, id) ==
    IF Stopped(st) THEN st
    ELSE LET n == Len(st.joinColumns) + 1
             expr == NodeOf(st, id)
             newExpr == [Expr("OpColumnRef", <<>>) EXCEPT
                            !.m_value.type = expr.m_value.type,
                            !.ref = JoinColumnName(n), !.joined = TRUE, !.index = n]
         IN  [st EXCEPT !.joinColumns = Append(@, [name |-> JoinColumnName(n),
                                                   expr |-> expr]),
                        !.m_columns[id[1]].expr = SetNodeAt(@, Tail(id), newExpr),
                        !.flags = HoistedFlags(st.flags, id, n),
                        !.assertFailed =
                            @ \/ "SubtreeContainsInputPathRef" \in st.flags[id]
                              \/ "SubtreeContainsJoinPathRef" \notin st.flags[id]]

\* ValidateStructureAndHoistJoinColumns after the traversal of the
\* descendants of the node: the arguments with joined paths are hoisted out
\* of an aggregate or of a function of a path of the input.
RECURSIVE HoistJoinArgs(_, _, _)
HoistJoinArgs(st, id, n) ==
    IF n = 0 THEN st
    ELSE IF Stopped(HoistJoinArgs(st, id, n - 1)) THEN HoistJoinArgs(st, id, n - 1)
    ELSE IF "SubtreeContainsJoinPathRef" \in HoistJoinArgs(st, id, n - 1).flags[Append(id, n)]
    THEN HoistJoinColumn(HoistJoinArgs(st, id, n - 1), Append(id, n))
    ELSE HoistJoinArgs(st, id, n - 1)

HoistJoinPaths(st, id) ==
    IF Stopped(st) THEN st
    ELSE IF /\ "SubtreeContainsJoinPathRef" \in st.flags[id]
            /\ \/ "SubtreeContainsInputPathRef" \in st.flags[id]
               \/ NodeOf(st, id).opcode \in AggregateOps
    THEN [HoistJoinArgs(st, id, Len(NodeOf(st, id).m_args)) EXCEPT
            !.flags[id] = @ \ {"SubtreeContainsJoinPathRef"}]
    ELSE st

\* Then an aggregate erases the dependency on the paths of the input, and
\* the mixture of aggregates and paths is caught.
ErasePathDependency(st, id) ==
    IF Stopped(st) \/ NodeOf(st, id).opcode \notin AggregateOps THEN st
    ELSE [st EXCEPT !.flags[id] = @ \ {"SubtreeContainsInputPathRef"}]

CatchMixture(st, id) ==
    IF Stopped(st) THEN st
    ELSE IF /\ NodeOf(st, id).opcode # "OpSort"
            /\ "SubtreeContainsAggregate" \in st.flags[id]
            /\ st.flags[id] \cap {"SubtreeContainsInputPathRef",
                                  "SubtreeContainsJoinPathRef"} # {}
    THEN Raise(st, "Columns can't be functions of both aggregates and non-aggregates")
    ELSE st

AfterDescendants(st, id) ==
    CatchMixture(ErasePathDependency(HoistJoinPaths(st, id), id), id)

\* ValidateStructureAndHoistJoinColumns of the node `id`; a column reference
\* leads to the root of the expression of its column.
RECURSIVE ValidateStructure(_, _)
RECURSIVE ValidateArgs(_, _, _)
ValidateArgs(st, id, n) ==
    IF n = 0 THEN st
    ELSE RollupFlags(ValidateStructure(ValidateArgs(st, id, n - 1), Append(id, n)),
                     id, Append(id, n))

ValidateStructure(st, id) ==
    IF Stopped(st) \/ "Visited" \in st.flags[id] THEN st
    ELSE IF NodeOf(st, id).opcode = "OpColumnRef"
    THEN AfterDescendants(
            RollupFlags(ValidateStructure([st EXCEPT !.flags[id] = @ \cup {"Visited"}],
                                          ColumnRefTarget(NodeOf(st, id))),
                        id, ColumnRefTarget(NodeOf(st, id))),
            id)
    ELSE AfterDescendants(
            ValidateArgs([st EXCEPT !.flags[id] = @ \cup {"Visited"}], id,
                         Len(NodeOf(st, id).m_args)),
            id)

\* A round of the loop of ParseColumnSpecs over the columns: the expression
\* of a column is hoisted as a whole when joined paths are left in it.
ValidateColumn(st, n) ==
    IF Stopped(ValidateStructure(st, <<n>>)) THEN ValidateStructure(st, <<n>>)
    ELSE IF "SubtreeContainsJoinPathRef" \in ValidateStructure(st, <<n>>).flags[<<n>>]
    THEN HoistJoinColumn(ValidateStructure(st, <<n>>), <<n>>)
    ELSE ValidateStructure(st, <<n>>)

\* The loop of ParseColumnSpecs over the columns.
RECURSIVE ValidateColumns(_, _)
ValidateColumns(st, n) ==
    IF n = 0 THEN st
    ELSE ValidateColumn(ValidateColumns(st, n - 1), n)

ValidateAll(st) == IF Stopped(st) THEN st ELSE ValidateColumns(st, Len(st.m_columns))

\* ParseColumnSpecs with its checks: the state it ends in.
CheckColumnSpecs(columnSpecs) ==
    IF FirstPassError(columnSpecs) # ""
    THEN Raise(ParseState(<<>>), FirstPassError(columnSpecs))
    ELSE ValidateAll(SetPostprocessFlags(BindColumns(PostProcessRefs(
            SecondPass(columnSpecs, Len(columnSpecs))))))

\* What a build makes of the call: "Aborted" is the abort of a failed
\* assert or the crash at a null pointer, "Hangs" a loop without end.
Outcome(st, asserts) ==
    IF st.assertFailed /\ asserts THEN "Aborted"
    ELSE IF st.crashed THEN "Aborted"
    ELSE IF st.hangs THEN "Hangs"
    ELSE IF st.error # "" THEN "Error"
    ELSE "Accepted"

\* The column specs the checks of ParseColumnSpecs are run on, as the
\* command line gives them.
ColumnSpecUniverse ==
    { ColumnSpec(<<>>, "k", kRef),
      ColumnSpec(<<>>, "K", PathRef("K")),
      ColumnSpec(<<"a">>, "a:k", kRef),
      ColumnSpec(<<"A">>, "A:v", vRef),
      ColumnSpec(<<"a">>, "a:b", PathRef("b")),
      ColumnSpec(<<"b">>, "b:a", PathRef("a")),
      ColumnSpec(<<"a">>, "a:B", PathRef("B")),
      ColumnSpec(<<"b">>, "b:A", PathRef("A")),
      ColumnSpec(<<"a">>, "a:b+1", Op2("OpAdd", PathRef("b"), NumberLiteral(1))),
      ColumnSpec(<<"b">>, "b:a+1", Op2("OpAdd", PathRef("a"), NumberLiteral(1))),
      ColumnSpec(<<"a">>, "a:sum[v]", Op1("OpSum", vRef)),
      ColumnSpec(<<"b">>, "b:sum[a]", Op1("OpSum", PathRef("a"))),
      ColumnSpec(<<"b">>, "b:sum[a+1]",
                 Op1("OpSum", Op2("OpAdd", PathRef("a"), NumberLiteral(1)))),
      ColumnSpec(<<"a">>, "a:b+sum[v]", Op2("OpAdd", PathRef("b"), Op1("OpSum", vRef))),
      ColumnSpec(<<>>, "sum[sum[v]]", Op1("OpSum", Op1("OpSum", vRef))),
      ColumnSpec(<<"a", "b">>, "a,b:pivot[k,v]", Expr("OpPivot", <<kRef, vRef>>)),
      ColumnSpec(<<"a", "A">>, "a,A:pivot[k,v]", Expr("OpPivot", <<kRef, vRef>>)) }

(***************************************************************************)
(* The run of a query over an input: XmlDriver::DoPasses, the parser       *)
(* handing the records it matches to XmlQuery::EmitRow, and                *)
(* OutputStoredRows.                                                       *)
(***************************************************************************)
VARIABLES
    cfg,            \* the query, a position in Queries
    input,          \* the records of the input
    rowwise,        \* the input is parsed one record per call of Parse (csv, json, log)
    m_querySpec,    \* the query spec ParseColumnSpecs made
    m_indexedJoin,  \* the rows of the right side of the join by bucket
    controlC,       \* ControlCIssued()
    pc,             \* where DoPasses is
    passes,         \* the local of DoPasses: GetPassTypes()
    passIdx,        \* the pass DoPasses is at, a position in passes
    passLog,        \* the calls DoPasses has made
    pos,            \* the records of the input read in the pass
    parsedValue,    \* XmlPathRef::parsedValue of the paths k and v
    m_flags, context, m_seqRows, m_rowRefs, m_aggregates, m_distinctRows,
    output,         \* the calls of the row callback
    m_outputHeader, \* XmlDriver::m_outputHeader
    m_output,       \* the lines written to the output
    trace,          \* the row iterations of JoinAndCommitRow
    doc,            \* the XML document of the input as Scan gives it
    scanPos,        \* the tags of doc Parse has scanned
    m_paths, m_rowState, m_currDepth,
    columnArgs,     \* the column specs of the command line
    parseResult,    \* how ParseColumnSpecs has ended on columnArgs
    convertArgs,    \* the value and the type given to XmlValue::Convert
    converted,      \* the values Convert has returned, each made from the last
    compareArgs,    \* the three values given to XmlValue::Compare, two at a time
    compared,       \* what Compare has returned on them
    matchArgs,      \* the path refs of a matcher that is given tags one by one
    openTags,       \* the labels of the elements that matcher is inside of
    matchLog,       \* what the last tag has done to the paths of that matcher
    editArgs,       \* the columns of a query whose column list is edited
    columnEditor,   \* the XmlQuerySpec the pivoter edits: m_columns, m_colMap
    pivoter,        \* the XmlPivoter of that query and where its caller is
    exprArgs,       \* the expression a function of the expression model is given
    exprResult      \* what the function has made of it

queryVars == <<m_flags, context, m_seqRows, m_rowRefs, m_aggregates, m_distinctRows,
               output, m_outputHeader, m_output, trace>>

configVars == <<cfg, input, rowwise, m_querySpec, m_indexedJoin, columnArgs, parseResult,
                convertArgs, converted, compareArgs, compared, matchArgs, openTags,
                matchLog, editArgs, columnEditor, pivoter, exprArgs, exprResult>>

vars == <<cfg, input, rowwise, m_querySpec, m_indexedJoin, controlC, pc, passes, passIdx,
          passLog, pos, parsedValue, m_flags, context, m_seqRows, m_rowRefs,
          m_aggregates, m_distinctRows, output, m_outputHeader, m_output, trace,
          doc, scanPos, m_paths,
          m_rowState, m_currDepth, columnArgs, parseResult, convertArgs, converted,
          compareArgs, compared, matchArgs, openTags, matchLog,
          editArgs, columnEditor, pivoter, exprArgs, exprResult>>

\* The column list that is edited on its own.
editVars == <<editArgs, columnEditor, pivoter>>

\* The expression that is parsed or evaluated on its own.
exprVars == <<exprArgs, exprResult>>

\* The matcher of the parser and its position in the document.
parserVars == <<doc, scanPos, m_paths, m_rowState, m_currDepth>>

\* The query and its context as one record, and the assignment of one.
Q == [m_flags |-> m_flags, context |-> context, m_seqRows |-> m_seqRows,
      m_rowRefs |-> m_rowRefs, m_aggregates |-> m_aggregates,
      m_distinctRows |-> m_distinctRows, output |-> output,
      m_outputHeader |-> m_outputHeader, m_output |-> m_output, trace |-> trace]

SetQ(s) ==
    /\ m_flags' = s.m_flags
    /\ context' = s.context
    /\ m_seqRows' = s.m_seqRows
    /\ m_rowRefs' = s.m_rowRefs
    /\ m_aggregates' = s.m_aggregates
    /\ m_distinctRows' = s.m_distinctRows
    /\ output' = s.output
    /\ m_outputHeader' = s.m_outputHeader
    /\ m_output' = s.m_output
    /\ trace' = s.trace

InitQuery ==
    /\ m_flags = {}
    /\ context = ContextReset("PassNotSet")
    /\ m_seqRows = <<>>
    /\ m_rowRefs = <<>>
    /\ m_aggregates = <<>>
    /\ m_distinctRows = <<>>
    /\ output = <<>>
    /\ m_outputHeader = TRUE
    /\ m_output = <<>>
    /\ trace = <<>>

\* The column specs of the queries of Queries are parsed before the run.
NotParsed ==
    [outcome |-> "NotParsed", error |-> "", names |-> <<>>, exprs |-> <<>>,
     joinColumns |-> <<>>]

ColumnsParsed ==
    /\ columnArgs = <<>>
    /\ parseResult = [NotParsed EXCEPT !.outcome = "Accepted"]

\* No value is given to Convert on its own.
NoConversion ==
    /\ convertArgs = [fromValue |-> DefaultValue, toType |-> "Unknown"]
    /\ converted = <<>>
    /\ compareArgs = <<>>
    /\ compared = <<>>

\* What the tags do to the paths: the paths whose start tag and whose end
\* tag the last tag has matched, the paths it has cleared, the rows it has
\* committed, the paths that have started and ended since their values
\* were last cleared, and the paths that counted as matched and the Sync
\* paths that were matched when MatchStartTag or MatchEndTag returned.
NoMatchLog ==
    [n |-> 0, kind |-> "reset", startMatched |-> {}, endMatched |-> {},
     cleared |-> {}, commits |-> 0, started |-> {}, ended |-> {},
     counted |-> {}, syncMatched |-> {}]

\* No matcher is given tags on its own.
NoMatching ==
    /\ matchArgs = <<>>
    /\ openTags = <<>>
    /\ matchLog = NoMatchLog

\* XmlQuerySpec and XmlPivoter after construction: no column, m_spreadIdx
\* is -1 and the pivoter collects columns.  `made` counts the columns
\* allocated, `aborted` tells that an assert has ended the process, and
\* `crashed` that a bad iterator was erased.
NoColumns ==
    [m_columns |-> <<>>, m_colMap |-> {}, m_numValueColumns |-> 0, made |-> 0,
     aborted |-> FALSE, crashed |-> FALSE]

NewPivoter ==
    [pc |-> "ParseColumnSpecs", next |-> 1, error |-> "", m_spreadIdx |-> 0 - 1,
     m_collectingColumns |-> TRUE, newColumns |-> <<>>, m_names |-> <<>>,
     m_seqRows |-> <<>>, RecycleStorage |-> FALSE, partitions |-> 0, last |-> "",
     discovered |-> 0]

\* No column list is edited on its own.
NoEditing ==
    /\ editArgs = [columnSpecs |-> <<>>, pivotNames |-> <<>>, jagged |-> FALSE,
                   ndebug |-> FALSE]
    /\ columnEditor = NoColumns
    /\ pivoter = [NewPivoter EXCEPT !.pc = "Done"]

\* No expression is parsed or evaluated on its own.
NoExpression ==
    /\ exprArgs = <<>>
    /\ exprResult = <<>>

\* The driver and the parser after construction.
InitRun ==
    /\ controlC = FALSE
    /\ pc = "Run"
    /\ passes = <<>>
    /\ passIdx = 1
    /\ passLog = <<>>
    /\ pos = 0
    /\ parsedValue = [k |-> <<>>, v |-> <<>>]
    /\ InitQuery
    /\ scanPos = 0
    /\ m_paths = <<>>
    /\ m_rowState = RowStateReset
    /\ m_currDepth = 0

\* The rows of a query with a pivot go through the pivoter; such a query is
\* run on the input without records.  The input is read by records: the
\* end tag that completes a record is the step ParseRow.
Init ==
    /\ cfg \in 1..Len(Queries)
    /\ m_querySpec = QuerySpecs[cfg]
    /\ m_indexedJoin = IndexedJoin(Queries[cfg].joinRows)
    /\ input \in SeqsUpTo(Records, MaxRows)
    /\ Enabled(m_querySpec) => input = <<>>
    /\ rowwise \in BOOLEAN
    /\ doc = <<>>
    /\ InitRun
    /\ ColumnsParsed
    /\ NoConversion
    /\ NoMatching
    /\ NoEditing
    /\ NoExpression

\* The signal handler of Control-C.
ControlC ==
    /\ pc \notin {"Done", "Aborted"}
    /\ ~controlC
    /\ controlC' = TRUE
    /\ UNCHANGED <<pc, passes, passIdx, passLog, pos, parsedValue>>
    /\ UNCHANGED configVars
    /\ UNCHANGED parserVars
    /\ UNCHANGED queryVars

\* DoPasses is entered: passes = GetPassTypes().
DoPasses ==
    /\ pc = "Run"
    /\ passes' = GetPassTypes(m_querySpec)
    /\ pc' = "DoPasses"
    /\ UNCHANGED <<controlC, passIdx, passLog, pos, parsedValue>>
    /\ UNCHANGED configVars
    /\ UNCHANGED parserVars
    /\ UNCHANGED queryVars

\* DoPasses at the head of its loop: break on Control-C, else
\* XmlParser::Reset, here without the matcher.
ResetQuery ==
    /\ pc = "DoPasses"
    /\ IF passIdx > Len(passes) \/ controlC
       THEN /\ pc' = "Done"
            /\ UNCHANGED <<passLog, pos>>
            /\ UNCHANGED queryVars
       ELSE /\ SetQ(ParserReset(Q, m_querySpec, passes[passIdx]))
            /\ passLog' = Append(passLog, <<"Reset", passes[passIdx]>>)
            /\ pos' = 0
            /\ pc' = IF passes[passIdx] = "StoredValuesPass" THEN "OutputStoredRows"
                      ELSE "Parse"
    /\ UNCHANGED <<controlC, passes, passIdx>>
    /\ UNCHANGED configVars

\* The head of the loop of DoPasses when the input is read by records; the
\* reset of the paths clears the parsed values.
ResetPass ==
    /\ ResetQuery
    /\ parsedValue' = IF pc' = "Done" THEN parsedValue ELSE [k |-> <<>>, v |-> <<>>]
    /\ UNCHANGED parserVars

\* The call of the pass returns and DoPasses goes to its next pass.
EndPass(call) ==
    /\ passLog' = Append(passLog, <<call, passes[passIdx]>>)
    /\ passIdx' = passIdx + 1
    /\ pc' = "DoPasses"

\* XmlParser::CheckUnreferenced that looks at its first path only.
CheckUnreferencedFirstPath(paths) ==
    paths # <<>> /\ "ExistsInInput" \notin paths[1].m_flags

\* XmlParser::CheckUnreferenced: the error "Path not matched in input" is
\* raised for a path without the flag ExistsInInput.
CheckUnreferenced(paths) ==
    \E i \in 1..Len(paths) : "ExistsInInput" \notin paths[i].m_flags

\* The end of XmlDriver::Parse: m_parser->CheckUnreferenced() raises its
\* error or the call returns to DoPasses.  The pivot of a query of Queries
\* has the spread for its names, so that the pivoter has no result column
\* left without a reference.
EndParsePass(unreferenced) ==
    IF unreferenced
    THEN /\ pc' = "Error"
         /\ UNCHANGED <<passIdx, passLog>>
    ELSE EndPass("Parse")

\* Whether a path of the query is without a start match when the input is
\* read by records: every path has matched once a record was read, and
\* before that the tags of the input decide.
MayBeUnreferenced ==
    IF pos = 0 /\ InputPathRefs(Queries[cfg].columnSpecs) # {} THEN BOOLEAN ELSE {FALSE}

\* After an end tag Parse sets ParseStopped on Control-C and returns when
\* ParseStopped is set; the parse of an XML input is one call of Parse.
AfterEndTag(s, unreferenced) ==
    /\ SetQ(IF controlC THEN [s EXCEPT !.m_flags = SetFlags(@, "ParseStopped", TRUE)]
            ELSE s)
    /\ IF ("ParseStopped" \in s.m_flags \/ controlC) /\ ~rowwise
       THEN EndParsePass(unreferenced)
       ELSE UNCHANGED <<pc, passIdx, passLog>>

\* The end tag that completes the match of the next record: the values of
\* the record are bound to the paths and the row is emitted.  When
\* ParseStopped is set, the calls of Parse of a row-wise input go on and
\* reach EmitRow when the query has one path.
ParseRow ==
    /\ pc = "Parse"
    /\ pos < Len(input)
    /\ "ParseStopped" \in m_flags =>
           rowwise /\ Cardinality(InputPathRefs(Queries[cfg].columnSpecs)) = 1
    /\ pos' = pos + 1
    /\ parsedValue' = input[pos + 1]
    /\ AfterEndTag(EmitRow(Q, m_querySpec, input[pos + 1], m_indexedJoin), FALSE)
    /\ UNCHANGED <<controlC, passes>>
    /\ UNCHANGED configVars
    /\ UNCHANGED parserVars

\* A record of a row-wise input whose call of Parse returns at an end tag
\* before the match is complete, ParseStopped being set.
SkipRecord ==
    /\ pc = "Parse"
    /\ pos < Len(input)
    /\ rowwise
    /\ "ParseStopped" \in m_flags
    /\ pos' = pos + 1
    /\ UNCHANGED <<controlC, pc, passes, passIdx, passLog, parsedValue>>
    /\ UNCHANGED configVars
    /\ UNCHANGED parserVars
    /\ UNCHANGED queryVars

\* An end tag inside a record after Control-C.
StopParse ==
    /\ pc = "Parse"
    /\ pos < Len(input)
    /\ controlC
    /\ "ParseStopped" \notin m_flags
    /\ \E unreferenced \in MayBeUnreferenced : AfterEndTag(Q, unreferenced)
    /\ UNCHANGED <<controlC, passes, pos, parsedValue>>
    /\ UNCHANGED configVars
    /\ UNCHANGED parserVars

\* The end of the input.
EndParse ==
    /\ pc = "Parse"
    /\ pos = Len(input)
    /\ SetQ(IF controlC THEN [Q EXCEPT !.m_flags = SetFlags(@, "ParseStopped", TRUE)]
            ELSE Q)
    /\ \E unreferenced \in MayBeUnreferenced : EndParsePass(unreferenced)
    /\ UNCHANGED <<controlC, passes, pos, parsedValue>>
    /\ UNCHANGED configVars
    /\ UNCHANGED parserVars

\* The assert of JoinAndCommitRow on the bucket of the join rows: a build
\* with asserts aborts on the first row when the right side has no rows.
AssertFails ==
    /\ pc = "Parse"
    /\ pos < Len(input)
    /\ "ParseStopped" \notin m_flags
    /\ "LeftSideOfJoin" \in m_querySpec.m_flags
    /\ m_querySpec.equalityExprs = <<>>
    /\ XmlRowHash(0, <<>>) \notin DOMAIN m_indexedJoin
    /\ pc' = "Aborted"
    /\ UNCHANGED <<controlC, passes, passIdx, passLog, pos, parsedValue>>
    /\ UNCHANGED configVars
    /\ UNCHANGED parserVars
    /\ UNCHANGED queryVars

\* XmlParser::OutputStoredRows: Reset(StoredValuesPass) once more, then
\* XmlQuery::OutputStoredRows.
OutputPass ==
    /\ pc = "OutputStoredRows"
    /\ \E s \in OutputStoredRows(ParserReset(Q, m_querySpec, "StoredValuesPass"),
                                  m_querySpec, parsedValue) : SetQ(s)
    /\ EndPass("OutputStoredRows")
    /\ UNCHANGED <<controlC, passes, pos, parsedValue>>
    /\ UNCHANGED configVars
    /\ UNCHANGED parserVars

Next ==
    \/ ControlC
    \/ DoPasses
    \/ ResetPass
    \/ ParseRow
    \/ SkipRecord
    \/ StopParse
    \/ EndParse
    \/ AssertFails
    \/ OutputPass

Spec == Init /\ [][Next]_vars

(***************************************************************************)
(* The run of a query over an XML document: XmlParser::Parse scans the     *)
(* document tag by tag and the matcher binds the values of the paths.      *)
(***************************************************************************)

\* The queries run over the documents: k distinct, and k v.
ParseConfigs == {6, 25}

InitParse ==
    /\ cfg \in ParseConfigs
    /\ m_querySpec = QuerySpecs[cfg]
    /\ m_indexedJoin = IndexedJoin(Queries[cfg].joinRows)
    /\ input \in SeqsUpTo(XmlRecords, MaxRows)
    /\ doc \in {Document(input, layout) : layout \in Layouts}
    /\ rowwise = FALSE
    /\ InitRun
    /\ ColumnsParsed
    /\ NoConversion
    /\ NoMatching
    /\ NoEditing
    /\ NoExpression

\* The parser as one record, and the assignment of its matcher.
P == [m_paths |-> m_paths, m_rowState |-> m_rowState, context |-> context,
      ret |-> FALSE, query |-> Q]

SetParser(m) ==
    /\ m_paths' = m.m_paths
    /\ m_rowState' = m.m_rowState
    /\ parsedValue' = ParsedValues(m.m_paths)

\* The head of the loop of DoPasses: XmlParser::Reset with the matcher.
Reset ==
    /\ ResetQuery
    /\ IF pc' = "Done"
       THEN UNCHANGED <<scanPos, m_paths, m_rowState, parsedValue>>
       ELSE /\ scanPos' = 0
            /\ \E pathSpecs \in IterationOrders(InputPathRefs(Queries[cfg].columnSpecs)) :
                   SetParser(ResetPathMatching(P, pathSpecs))
    /\ UNCHANGED <<doc, m_currDepth>>

\* The end of the loop body of Parse at an end tag.
EndOfTag(m) ==
    /\ SetParser(m)
    /\ AfterEndTag(QueryOf(m), CheckUnreferenced(m.m_paths))

\* A start tag; a self-terminating tag goes on as an end tag.
StartTag ==
    /\ pc = "Parse"
    /\ scanPos < Len(doc)
    /\ doc[scanPos + 1].kind = "start"
    /\ scanPos' = scanPos + 1
    /\ IF doc[scanPos + 1].selfTerminating
       THEN /\ EndOfTag(OnEndTag(OnStartTag(ScanChars(P, doc[scanPos + 1]),
                                            doc[scanPos + 1]),
                                 doc[scanPos + 1], m_querySpec, m_indexedJoin))
            /\ UNCHANGED m_currDepth
       ELSE /\ SetParser(OnStartTag(ScanChars(P, doc[scanPos + 1]), doc[scanPos + 1]))
            /\ SetQ(QueryOf(OnStartTag(ScanChars(P, doc[scanPos + 1]),
                                       doc[scanPos + 1])))
            /\ m_currDepth' = m_currDepth + 1
            /\ UNCHANGED <<pc, passIdx, passLog>>
    /\ UNCHANGED <<controlC, passes, pos, doc>>
    /\ UNCHANGED configVars

EndTag ==
    /\ pc = "Parse"
    /\ scanPos < Len(doc)
    /\ doc[scanPos + 1].kind = "end"
    /\ scanPos' = scanPos + 1
    /\ m_currDepth' = m_currDepth - 1
    /\ EndOfTag(OnEndTag(ScanChars(P, doc[scanPos + 1]), doc[scanPos + 1],
                         m_querySpec, m_indexedJoin))
    /\ UNCHANGED <<controlC, passes, pos, doc>>
    /\ UNCHANGED configVars

\* A declaration or a comment: the tag is neither a start nor an end tag.
SpecialTag ==
    /\ pc = "Parse"
    /\ scanPos < Len(doc)
    /\ doc[scanPos + 1].kind = "special"
    /\ scanPos' = scanPos + 1
    /\ SetParser(ScanChars(P, doc[scanPos + 1]))
    /\ UNCHANGED <<controlC, pc, passes, passIdx, passLog, pos, doc, m_currDepth>>
    /\ UNCHANGED configVars
    /\ UNCHANGED queryVars

\* ReadMoreChars finds the stream at its end and Parse returns.
EndOfStream ==
    /\ pc = "Parse"
    /\ scanPos = Len(doc)
    /\ EndParsePass(CheckUnreferenced(m_paths))
    /\ UNCHANGED <<controlC, passes, pos, parsedValue>>
    /\ UNCHANGED configVars
    /\ UNCHANGED queryVars
    /\ UNCHANGED parserVars

NextParse ==
    \/ ControlC
    \/ DoPasses
    \/ Reset
    \/ StartTag
    \/ EndTag
    \/ SpecialTag
    \/ EndOfStream
    \/ OutputPass

SpecParse == InitParse /\ [][NextParse]_vars

(***************************************************************************)
(* XmlQuerySpec::ParseColumnSpecs on the column specs of a command line.   *)
(***************************************************************************)

\* The most column specs of a command line.
MaxColumns == 3

InitColumns ==
    /\ cfg = 1
    /\ m_querySpec = QuerySpecs[cfg]
    /\ m_indexedJoin = IndexedJoin(Queries[cfg].joinRows)
    /\ input = <<>>
    /\ rowwise = FALSE
    /\ doc = <<>>
    /\ InitRun
    /\ columnArgs \in SeqsUpTo(ColumnSpecUniverse, MaxColumns)
    /\ parseResult = NotParsed
    /\ NoConversion
    /\ NoMatching
    /\ NoEditing
    /\ NoExpression

\* The names of the columns in their order.
ColumnNames(m_columns) == [i \in 1..Len(m_columns) |-> m_columns[i].name]

ParseResult(st, asserts) ==
    [outcome |-> Outcome(st, asserts),
     error |-> IF Outcome(st, asserts) = "Error" THEN st.error ELSE "",
     names |-> IF Outcome(st, asserts) = "Accepted" THEN ColumnNames(st.m_columns)
               ELSE <<>>,
     exprs |-> IF Outcome(st, asserts) = "Accepted"
               THEN [i \in 1..Len(st.m_columns) |-> st.m_columns[i].expr]
               ELSE <<>>,
     joinColumns |-> IF Outcome(st, asserts) = "Accepted" THEN st.joinColumns ELSE <<>>]

\* The call of ParseColumnSpecs by XmlParser::FinishColumns; a build either
\* has the asserts or has not.
ParseColumns ==
    /\ parseResult = NotParsed
    /\ \E asserts \in BOOLEAN :
          parseResult' = ParseResult(CheckColumnSpecs(columnArgs), asserts)
    /\ UNCHANGED <<cfg, input, rowwise, m_querySpec, m_indexedJoin, columnArgs>>
    /\ UNCHANGED <<convertArgs, converted, compareArgs, compared>>
    /\ UNCHANGED <<matchArgs, openTags, matchLog>>
    /\ UNCHANGED editVars
    /\ UNCHANGED exprVars
    /\ UNCHANGED <<controlC, pc, passes, passIdx, passLog, pos, parsedValue>>
    /\ UNCHANGED queryVars
    /\ UNCHANGED parserVars

NextColumns == ParseColumns

SpecColumns == InitColumns /\ [][NextColumns]_vars

(***************************************************************************)
(* ParseColumnSpecs on the column specs of a join: the join x, whose paths *)
(* are written x.i and x.j, and two more column specs.                     *)
(***************************************************************************)
jRef == JoinedPathRef("j", 0)

iRef == JoinedPathRef("i", 0)

JoinColumnSpec ==
    ColumnSpec(<<"x">>, "x:join[f]",
               Op1("OpJoin", [Expr("OpLiteral", <<>>) EXCEPT !.m_value = StringValue("f")]))

JoinColumnSpecUniverse ==
    { ColumnSpec(<<>>, "k", kRef),
      ColumnSpec(<<"a">>, "a:x.j", jRef),
      ColumnSpec(<<"b">>, "b:a+k", Op2("OpAdd", PathRef("a"), kRef)),
      ColumnSpec(<<>>, "x.j+k", Op2("OpAdd", jRef, kRef)),
      ColumnSpec(<<>>, "sum[x.j]", Op1("OpSum", jRef)),
      ColumnSpec(<<>>, "sum[x.i+x.j]", Op1("OpSum", Op2("OpAdd", iRef, jRef))),
      ColumnSpec(<<>>, "x.j+sum[k]", Op2("OpAdd", jRef, Op1("OpSum", kRef))),
      ColumnSpec(<<>>, "where[x.j=k]", Where(Op2("OpEQ", jRef, kRef))),
      ColumnSpec(<<>>, "sort[x.j,k]", Expr("OpSort", <<jRef, kRef>>)),
      ColumnSpec(<<>>, "sort[x.j,sum[k]]", Expr("OpSort", <<jRef, Op1("OpSum", kRef)>>)) }

InitHoist ==
    /\ cfg = 1
    /\ m_querySpec = QuerySpecs[cfg]
    /\ m_indexedJoin = IndexedJoin(Queries[cfg].joinRows)
    /\ input = <<>>
    /\ rowwise = FALSE
    /\ doc = <<>>
    /\ InitRun
    /\ columnArgs \in {<<JoinColumnSpec>> \o columnSpecs :
                          columnSpecs \in SeqsUpTo(JoinColumnSpecUniverse, MaxColumns - 1)}
    /\ parseResult = NotParsed
    /\ NoConversion
    /\ NoMatching
    /\ NoEditing
    /\ NoExpression

SpecHoist == InitHoist /\ [][NextColumns]_vars

(***************************************************************************)
(* XmlValue::Convert applied to a value, and again to what it returns.     *)
(***************************************************************************)

\* The most calls of Convert in a row.
MaxConversions == 3

\* The strings given to Convert: numbers, words, dates, and strings that
\* are no dates for the lack of a field, for a month that is none, or for
\* a time without colons.
ConvertStrings ==
    { <<>>, <<"0">>, <<"1">>, <<"-", "1">>, <<" ", "1">>, <<"a">>,
      <<"f", "a", "l", "s", "e">>,
      <<"1", "9", "7", "0", "-", "1", "-", "2">>,
      <<"1", "9", "7", "0", "-", "1">>,
      <<"1", "9", "7", "0", "-", "1", "3", "-", "2">>,
      <<"1", "9", "7", "0", "-", "1", "-", "2", " ", "a">> }

ConvertValues ==
    {StringValue(s) : s \in ConvertStrings}
    \cup {RealValue(r) : r \in {Fin(0), Fin(1), Fin(0 - 1), NaN}}
    \cup {IntegerValue(i) : i \in {0, 1, 0 - 1}}
    \cup {BooleanValue(b) : b \in BOOLEAN}
    \cup {DateTimeValue(FromString(<<"1", "9", "7", "0", "-", "1", "-", "2">>)),
          DateTimeValue(FromStdTime(1))}
    \cup {DefaultValue}

\* The conversion of NaN to an integer is undefined, and with it the one to
\* a date-time; the string of NaN is none of the model.
ConvertInputs ==
    {args \in [fromValue : ConvertValues, toType : XmlTypes] :
        args.fromValue.type = "Real" /\ args.fromValue.rval.cls = "nan"
            => args.toType \in {"Real", "Boolean"}}

InitConvert ==
    /\ cfg = 1
    /\ m_querySpec = QuerySpecs[cfg]
    /\ m_indexedJoin = IndexedJoin(Queries[cfg].joinRows)
    /\ input = <<>>
    /\ rowwise = FALSE
    /\ doc = <<>>
    /\ InitRun
    /\ ColumnsParsed
    /\ convertArgs \in ConvertInputs
    /\ converted = <<>>
    /\ compareArgs = <<>>
    /\ compared = <<>>
    /\ NoMatching
    /\ NoEditing
    /\ NoExpression

\* A call of Convert with the type, on the value given or on the value the
\* last call has returned.
ConvertValue ==
    /\ Len(converted) < MaxConversions
    /\ converted' = Append(converted,
                           Convert(IF converted = <<>> THEN convertArgs.fromValue
                                   ELSE converted[Len(converted)],
                                   convertArgs.toType))
    /\ UNCHANGED <<cfg, input, rowwise, m_querySpec, m_indexedJoin, columnArgs>>
    /\ UNCHANGED <<parseResult, convertArgs, compareArgs, compared>>
    /\ UNCHANGED <<matchArgs, openTags, matchLog>>
    /\ UNCHANGED editVars
    /\ UNCHANGED exprVars
    /\ UNCHANGED <<controlC, pc, passes, passIdx, passLog, pos, parsedValue>>
    /\ UNCHANGED queryVars
    /\ UNCHANGED parserVars

NextConvert == ConvertValue

SpecConvert == InitConvert /\ [][NextConvert]_vars

(***************************************************************************)
(* XmlValue::Compare on the pairs of three values.                         *)
(***************************************************************************)

\* The values given to Compare: of every type, the NaN among the reals, and
\* among the date-times a date, a date with a time, and what Convert makes
\* of a string that is no date.
CompareValues ==
    {StringValue(s) : s \in {<<>>, <<"a">>, <<"a", "b">>}}
    \cup {RealValue(r) : r \in {Fin(0), Fin(1), NaN}}
    \cup {IntegerValue(i) : i \in {0, 1}}
    \cup {BooleanValue(b) : b \in BOOLEAN}
    \cup {Convert(StringValue(s), "DateTime") :
             s \in {<<"1", "9", "7", "0", "-", "1", "-", "2">>,
                    <<"1", "9", "7", "0", "-", "1">>}}
    \cup {DateTimeValue(FromStdTime(86400))}
    \cup {DefaultValue}

InitCompare ==
    /\ cfg = 1
    /\ m_querySpec = QuerySpecs[cfg]
    /\ m_indexedJoin = IndexedJoin(Queries[cfg].joinRows)
    /\ input = <<>>
    /\ rowwise = FALSE
    /\ doc = <<>>
    /\ InitRun
    /\ ColumnsParsed
    /\ convertArgs = [fromValue |-> DefaultValue, toType |-> "Unknown"]
    /\ converted = <<>>
    /\ compareArgs \in [1..3 -> CompareValues]
    /\ compared = <<>>
    /\ NoMatching
    /\ NoEditing
    /\ NoExpression

\* The calls of Compare on the three values: compared[i][j] is what
\* Compare(compareArgs[i], compareArgs[j]) returns.
CompareAll ==
    /\ compared = <<>>
    /\ compared' = [i \in 1..3 |->
                       [j \in 1..3 |-> Compare(compareArgs[i], compareArgs[j])]]
    /\ UNCHANGED <<cfg, input, rowwise, m_querySpec, m_indexedJoin, columnArgs>>
    /\ UNCHANGED <<parseResult, convertArgs, converted, compareArgs>>
    /\ UNCHANGED <<matchArgs, openTags, matchLog>>
    /\ UNCHANGED editVars
    /\ UNCHANGED exprVars
    /\ UNCHANGED <<controlC, pc, passes, passIdx, passLog, pos, parsedValue>>
    /\ UNCHANGED queryVars
    /\ UNCHANGED parserVars

NextCompare == CompareAll

SpecCompare == InitCompare /\ [][NextCompare]_vars

(***************************************************************************)
(* The matcher given the tags of a well-nested document one by one, as     *)
(* XmlParser::Parse gives them, without the query: a committed row is      *)
(* counted.                                                                *)
(***************************************************************************)

\* The most tags given, and the deepest nesting of the elements.
MaxEvents == 7

MaxDepth == 3

\* The labels of the tags.
MatchLabels == {"a", "b", "o"}

PathRefOf(pathSpec, tags, flags, endMatchExprs) ==
    [pathSpec |-> pathSpec, tags |-> tags, flags |-> flags,
     endMatchExprs |-> endMatchExprs]

\* The path refs of the queries, in the order in which the unordered map
\* gives them: a and b; b under sync, after and before a; a read for no
\* data (count[a], depth[a]) before and after b; a with nodeend[a]; o.a
\* and b; a and A, which match the same elements; a alone.
MatchQueries ==
    { <<PathRefOf("a", <<"a">>, {}, 0), PathRefOf("b", <<"b">>, {}, 0)>>,
      <<PathRefOf("a", <<"a">>, {}, 0), PathRefOf("b", <<"b">>, {"Sync"}, 0)>>,
      <<PathRefOf("b", <<"b">>, {"Sync"}, 0), PathRefOf("a", <<"a">>, {}, 0)>>,
      <<PathRefOf("a", <<"a">>, {"NoData"}, 0), PathRefOf("b", <<"b">>, {}, 0)>>,
      <<PathRefOf("b", <<"b">>, {}, 0), PathRefOf("a", <<"a">>, {"NoData"}, 0)>>,
      <<PathRefOf("a", <<"a">>, {"NoData"}, 1), PathRefOf("b", <<"b">>, {}, 0)>>,
      <<PathRefOf("o.a", <<"o", "a">>, {}, 0), PathRefOf("b", <<"b">>, {}, 0)>>,
      <<PathRefOf("a", <<"a">>, {}, 0), PathRefOf("A", <<"A">>, {}, 0)>>,
      <<PathRefOf("a", <<"a">>, {}, 0)>> }

\* The matcher of the variables as one record.
M == [m_paths |-> m_paths, m_rowState |-> m_rowState, context |-> context,
      ret |-> FALSE]

SetMatcher(m) ==
    /\ m_paths' = m.m_paths
    /\ m_rowState' = m.m_rowState
    /\ context' = m.context

\* XmlParser::ResetPathMatching on the path refs.
NewMatcher(pathRefs) ==
    MatcherReset([m_paths |-> [i \in 1..Len(pathRefs) |-> XmlPathOf(pathRefs[i])],
                  m_rowState |-> RowStateReset,
                  context |-> ContextReset("MainPass"), ret |-> FALSE])

InitMatch ==
    /\ cfg = 1
    /\ m_querySpec = QuerySpecs[cfg]
    /\ m_indexedJoin = IndexedJoin(Queries[cfg].joinRows)
    /\ input = <<>>
    /\ rowwise = FALSE
    /\ doc = <<>>
    /\ controlC = FALSE
    /\ pc = "Parse"
    /\ passes = <<>>
    /\ passIdx = 1
    /\ passLog = <<>>
    /\ pos = 0
    /\ parsedValue = [k |-> <<>>, v |-> <<>>]
    /\ m_flags = {}
    /\ m_seqRows = <<>>
    /\ m_rowRefs = <<>>
    /\ m_aggregates = <<>>
    /\ m_distinctRows = <<>>
    /\ output = <<>>
    /\ m_outputHeader = TRUE
    /\ m_output = <<>>
    /\ trace = <<>>
    /\ scanPos = 0
    /\ m_currDepth = 0
    /\ ColumnsParsed
    /\ NoConversion
    /\ matchArgs \in MatchQueries
    /\ openTags = <<>>
    /\ matchLog = NoMatchLog
    /\ NoEditing
    /\ NoExpression
    /\ m_paths = NewMatcher(matchArgs).m_paths
    /\ m_rowState = NewMatcher(matchArgs).m_rowState
    /\ context = NewMatcher(matchArgs).context

\* GetMatchType counts the path as matched: the path is matched, or is
\* NoData without end match expressions and searching for its end tag.
CountedAsMatched(path) ==
    \/ /\ "NoData" \in path.m_flags
       /\ path.endMatchExprs = 0
       /\ path.m_matchState = "SearchingForEndTag"
    \/ IsMatched(path)

\* The paths GetMatchType would count as matched, and the Sync paths among
\* them that are matched.
Counted(m) == {i \in 1..Len(m.m_paths) : CountedAsMatched(m.m_paths[i])}

SyncMatched(m) ==
    {i \in 1..Len(m.m_paths) :
        "Sync" \in m.m_paths[i].m_flags /\ IsMatched(m.m_paths[i])}

\* The paths ResetLater clears after the loop of MatchStartTag, which left
\* `m`: those whose match order is not below the match order of the row.
ClearedLater(m) ==
    IF m.ret
    THEN {i \in 1..Len(m.m_paths) :
             m.m_paths[i].m_matchOrder >= m.m_rowState.matchOrder}
    ELSE {}

\* The paths for which Path_MatchStartTag returns true on the tag.
StartMatched(m, tag) ==
    {i \in 1..Len(m.m_paths) :
        Path_MatchStartTag(m.m_paths[i], EnterTag(m).m_rowState,
                           m.context.relativeDepth, tag).matched}

\* The paths for which Path_MatchEndTag returns true on the tag.
EndMatched(m, tag) ==
    {i \in 1..Len(m.m_paths) :
        Path_MatchEndTag(m.m_paths[i], m.m_rowState, m.context.relativeDepth,
                         tag).matched}

\* Parse at a start tag that is not self-terminating: m is the matcher
\* when MatchStartTag is called.
StartTagLog(m, tag) ==
    [n |-> matchLog.n + 1, kind |-> "start",
     startMatched |-> StartMatched(m, tag), endMatched |-> {},
     cleared |-> ClearedLater(StartTagPaths(EnterTag(m), tag, 1)),
     commits |-> 0,
     started |-> (matchLog.started \cup StartMatched(m, tag))
                     \ ClearedLater(StartTagPaths(EnterTag(m), tag, 1)),
     ended |-> (matchLog.ended \ StartMatched(m, tag))
                   \ ClearedLater(StartTagPaths(EnterTag(m), tag, 1)),
     counted |-> Counted(MatchStartTag(m, tag)),
     syncMatched |-> SyncMatched(MatchStartTag(m, tag))]

MatchStart ==
    /\ matchArgs # <<>>
    /\ matchLog.n < MaxEvents
    /\ Len(openTags) < MaxDepth
    /\ \E label \in MatchLabels :
          /\ openTags' = Append(openTags, label)
          /\ SetMatcher(OnStartTag(M, Token(<<>>, "start", label, FALSE)))
          /\ matchLog' = StartTagLog(AppendStartTag(M, Token(<<>>, "start", label,
                                                              FALSE)), label)
    /\ m_currDepth' = m_currDepth + 1
    /\ UNCHANGED <<cfg, input, rowwise, m_querySpec, m_indexedJoin, columnArgs>>
    /\ UNCHANGED <<parseResult, convertArgs, converted, compareArgs, compared>>
    /\ UNCHANGED <<controlC, pc, passes, passIdx, passLog, pos, parsedValue>>
    /\ UNCHANGED <<m_flags, m_seqRows, m_rowRefs, m_aggregates, m_distinctRows>>
    /\ UNCHANGED <<output, m_outputHeader, m_output, trace, doc, scanPos, matchArgs>>
    /\ UNCHANGED editVars
    /\ UNCHANGED exprVars

\* The match type asked for at every end tag.
EndTagCommitsUnmatched(m, token) ==
    GetMatchType(AppendEndTag(m, token)).m_rowState.matchType = "AllMatched"

\* Parse at an end tag after MatchEndTag, which left `m`: the match type is
\* asked for when an end tag was matched, and m_matcher->CommitMatch() and
\* m_query->EmitRow() are called when it is AllMatched.
EndTagCommits(m, token) ==
    m.ret /\ GetMatchType(AppendEndTag(m, token)).m_rowState.matchType = "AllMatched"

AfterEndTagMatch(m, token) ==
    IF m.ret
    THEN IF EndTagCommits(m, token) THEN CommitMatch(GetMatchType(AppendEndTag(m, token)))
         ELSE GetMatchType(AppendEndTag(m, token))
    ELSE AppendEndTag(m, token)

\* m is the matcher when MatchEndTag is called.
EndTagLog(m, token) ==
    [n |-> matchLog.n + 1, kind |-> "end",
     startMatched |-> {}, endMatched |-> EndMatched(m, token.label),
     cleared |-> {},
     commits |-> IF EndTagCommits(MatchEndTag(m, token.label), token) THEN 1 ELSE 0,
     started |-> matchLog.started,
     ended |-> matchLog.ended \cup EndMatched(m, token.label),
     counted |-> Counted(MatchEndTag(m, token.label)),
     syncMatched |-> SyncMatched(MatchEndTag(m, token.label))]

\* An end tag, with or without character data before it.
MatchEnd ==
    /\ matchArgs # <<>>
    /\ matchLog.n < MaxEvents
    /\ openTags # <<>>
    /\ \E chars \in {<<>>, <<"x">>} :
          LET token == Token(chars, "end", openTags[Len(openTags)], FALSE)
              m == [ScanChars(M, token) EXCEPT !.context.appendingValues = FALSE]
          IN  /\ SetMatcher(AfterEndTagMatch(MatchEndTag(m, token.label), token))
              /\ matchLog' = EndTagLog(m, token)
    /\ openTags' = SubSeq(openTags, 1, Len(openTags) - 1)
    /\ m_currDepth' = m_currDepth - 1
    /\ UNCHANGED <<cfg, input, rowwise, m_querySpec, m_indexedJoin, columnArgs>>
    /\ UNCHANGED <<parseResult, convertArgs, converted, compareArgs, compared>>
    /\ UNCHANGED <<controlC, pc, passes, passIdx, passLog, pos, parsedValue>>
    /\ UNCHANGED <<m_flags, m_seqRows, m_rowRefs, m_aggregates, m_distinctRows>>
    /\ UNCHANGED <<output, m_outputHeader, m_output, trace, doc, scanPos, matchArgs>>
    /\ UNCHANGED editVars
    /\ UNCHANGED exprVars

NextMatch ==
    \/ MatchStart
    \/ MatchEnd

SpecMatch == InitMatch /\ [][NextMatch]_vars

(***************************************************************************)
(* The column list of XmlQuerySpec as ParseColumnSpecs fills it and as the *)
(* pivoter edits it while the input is parsed.  A column is an object: it  *)
(* is told from the others by `id`.  m_colMap is the set of its entries,   *)
(* the lower-case name and the column.                                     *)
(***************************************************************************)
MaxInserts == 6

NewColumn(id, name, flags) ==
    [id |-> id, name |-> name, flags |-> flags, index |-> npos, valueIdx |-> npos]

\* m_colMap.find of the lower-case name: the entries under the key, none
\* or one.
FindColumn(e, colName) == {entry \in e.m_colMap : entry.key = ToLower(colName)}

\* The column list with `column` put before the position idx (from 0).
InsertBefore(columns, column, idx) ==
    SubSeq(columns, 1, idx) \o <<column>> \o SubSeq(columns, idx + 1, Len(columns))

\* The column list without the column at the position idx (from 0).
EraseAt(columns, idx) ==
    SubSeq(columns, 1, idx) \o SubSeq(columns, idx + 2, Len(columns))

\* m_numValueColumns as UpdateColumnIndices counts it.
NumValueColumns(columns) ==
    Cardinality({i \in 1..Len(columns) : IsOutput(columns[i]) \/ IsAggregate(columns[i])})

\* XmlQuerySpec::InsertColumn.  The assert on the name ends a build with
\* asserts; std::unordered_map::insert leaves an entry that is there.
InsertColumnAt(e, column, idx, ndebug) ==
    LET at == IF idx = npos THEN Len(e.m_columns) ELSE idx
        inserted == InsertBefore(e.m_columns, [column EXCEPT !.index = at], at)
        colMap == IF FindColumn(e, column.name) # {} THEN e.m_colMap
                  ELSE e.m_colMap \cup {[key |-> ToLower(column.name), id |-> column.id]}
    IN  IF ~ndebug /\ FindColumn(e, column.name) # {}
        THEN [e EXCEPT !.aborted = TRUE]
        ELSE IF ~ndebug /\ Cardinality(colMap) # Len(inserted)
        THEN [e EXCEPT !.aborted = TRUE, !.m_columns = inserted, !.m_colMap = colMap,
                       !.made = column.id]
        ELSE [e EXCEPT !.m_columns = UpdateColumnIndices(inserted),
                       !.m_colMap = colMap,
                       !.m_numValueColumns = NumValueColumns(inserted),
                       !.made = column.id]

\* XmlQuerySpec::DeleteColumn of a column object, as a set of outcomes:
\* erasing the end iterator of m_colMap is undefined, the map is left as it
\* is or the process ends.
DeleteColumn(e, column, ndebug) ==
    IF column.index = npos THEN {e}
    ELSE LET erased == EraseAt(e.m_columns, column.index)
             deleted == [e EXCEPT !.m_columns = UpdateColumnIndices(erased),
                                  !.m_colMap = @ \ FindColumn(e, column.name),
                                  !.m_numValueColumns = NumValueColumns(erased)]
         IN  IF FindColumn(e, column.name) # {} THEN {deleted}
             ELSE IF ~ndebug THEN {[e EXCEPT !.aborted = TRUE, !.m_columns = erased]}
             ELSE {deleted, [e EXCEPT !.crashed = TRUE, !.m_columns = erased]}

\* The column object of the id, as the list holds it.
ColumnOf(e, id) ==
    e.m_columns[CHOOSE i \in 1..Len(e.m_columns) : e.m_columns[i].id = id]

\* The column specs of the command line, by what ParseColumnExpr makes of
\* them: a column of a name with its flags, or the pivot column, which is
\* named __column_pivot and whose names are those of the pivot results.
OutputSpec(name) == [name |-> name, flags |-> {"Output"}, pivot |-> FALSE]

AggregateSpec(name) == [name |-> name, flags |-> {"Output", "Aggregate"}, pivot |-> FALSE]

WhereSpec == [name |-> "where[v>0]", flags |-> {"Filter"}, pivot |-> FALSE]

SortSpec == [name |-> "sort[v]", flags |-> {}, pivot |-> FALSE]

PivotSpec == [name |-> "__column_pivot", flags |-> {}, pivot |-> TRUE]

EditColumnSpecs ==
    { <<PivotSpec>>,
      <<OutputSpec("a"), PivotSpec>>,
      <<PivotSpec, OutputSpec("a")>>,
      <<WhereSpec, PivotSpec, AggregateSpec("b")>>,
      <<OutputSpec("a"), WhereSpec, AggregateSpec("b")>>,
      <<OutputSpec("a"), OutputSpec("A")>>,
      <<PivotSpec, SortSpec>>,
      <<PivotSpec, WhereSpec, SortSpec>> }

EditPivotNames ==
    { <<"...">>, <<"a", "...">>, <<"...", "b">>, <<"a", "A">>, <<"c">>, <<"c", "...", "d">>,
      <<"...", "c", "d">> }

\* The names the input gives the pivoter.
PivotInputNames == {"a", "B", "c", "e"}

EditQueries ==
    [columnSpecs : EditColumnSpecs, pivotNames : EditPivotNames, jagged : BOOLEAN,
     ndebug : BOOLEAN]

HasPivotSpec(columnSpecs) == \E i \in 1..Len(columnSpecs) : columnSpecs[i].pivot

InitEdit ==
    /\ cfg = 1
    /\ m_querySpec = QuerySpecs[cfg]
    /\ m_indexedJoin = IndexedJoin(Queries[cfg].joinRows)
    /\ input = <<>>
    /\ rowwise = FALSE
    /\ doc = <<>>
    /\ InitRun
    /\ ColumnsParsed
    /\ NoConversion
    /\ NoMatching
    /\ editArgs \in EditQueries
    /\ columnEditor = NoColumns
    /\ pivoter = NewPivoter
    /\ NoExpression

\* The process is running: no assert has ended it and it has not crashed.
Editing == ~columnEditor.aborted /\ ~columnEditor.crashed

EditFrame ==
    /\ UNCHANGED <<cfg, input, rowwise, m_querySpec, m_indexedJoin, columnArgs>>
    /\ UNCHANGED <<parseResult, convertArgs, converted, compareArgs, compared>>
    /\ UNCHANGED <<matchArgs, openTags, matchLog, editArgs>>
    /\ UNCHANGED exprVars
    /\ UNCHANGED <<controlC, pc, passes, passIdx, passLog, pos, parsedValue>>
    /\ UNCHANGED queryVars
    /\ UNCHANGED parserVars

\* Where ParseColumnSpecs goes after the column spec `next`: to the next
\* one, then to BindColumns when the query has a pivot.
AfterColumnSpec(p, columnSpecs) ==
    IF p.next < Len(columnSpecs) THEN [p EXCEPT !.next = @ + 1]
    ELSE IF HasPivotSpec(columnSpecs) THEN [p EXCEPT !.pc = "BindColumns", !.next = 1]
    ELSE [p EXCEPT !.pc = "Parse"]

\* The names ParseColumnNames checks against the columns inserted so far.
NamesOf(columnSpec, pivotNames) ==
    IF columnSpec.pivot THEN {pivotNames[i] : i \in 1..Len(pivotNames)}
    ELSE {columnSpec.name}

\* One round of the second loop of ParseColumnSpecs: ParseColumnExpr, which
\* raises the error of a name that is in m_colMap, and InsertColumn.
ParseColumnSpec ==
    /\ Editing
    /\ pivoter.pc = "ParseColumnSpecs"
    /\ LET columnSpec == editArgs.columnSpecs[pivoter.next]
       IN  IF \E name \in NamesOf(columnSpec, editArgs.pivotNames) :
                  FindColumn(columnEditor, name) # {}
           THEN /\ pivoter' = [pivoter EXCEPT !.pc = "Error",
                                              !.error = "Duplicate column name"]
                /\ UNCHANGED columnEditor
           ELSE /\ columnEditor' =
                        InsertColumnAt(columnEditor,
                                       NewColumn(columnEditor.made + 1, columnSpec.name,
                                                 columnSpec.flags),
                                       npos, editArgs.ndebug)
                /\ pivoter' = AfterColumnSpec(pivoter, editArgs.columnSpecs)
    /\ EditFrame

\* InsertNewColumn of the pivoter: a column of the flags Output and
\* PivotResult is inserted at idx.
InsertNewColumn(e, colName, idx, ndebug) ==
    InsertColumnAt(e, NewColumn(e.made + 1, colName, {"Output", "PivotResult"}), idx,
                   ndebug)

\* One round of the loop of XmlPivoter::BindColumns: the spread takes the
\* end of the column list as m_spreadIdx, any other name is a new column.
BindColumn ==
    /\ Editing
    /\ pivoter.pc = "BindColumns"
    /\ LET colName == editArgs.pivotNames[pivoter.next]
           after == IF pivoter.next < Len(editArgs.pivotNames)
                    THEN [pivoter EXCEPT !.next = @ + 1]
                    ELSE [pivoter EXCEPT !.pc = "Parse"]
       IN  IF colName = "..."
           THEN /\ pivoter' = [after EXCEPT !.m_spreadIdx = Len(columnEditor.m_columns)]
                /\ UNCHANGED columnEditor
           ELSE /\ columnEditor' = InsertNewColumn(columnEditor, colName, npos,
                                                   editArgs.ndebug)
                /\ pivoter' = after
    /\ EditFrame

\* One round of the loop of DoPivot with a name of the partition that is
\* no column yet: the column is inserted at m_spreadIdx.
PivotName ==
    /\ Editing
    /\ pivoter.pc = "Parse"
    /\ HasPivotSpec(editArgs.columnSpecs)
    /\ columnEditor.made < MaxInserts
    /\ pivoter.m_collectingColumns
    /\ pivoter.m_spreadIdx # npos
    /\ \E colName \in PivotInputNames :
          /\ FindColumn(columnEditor, colName) = {}
          /\ columnEditor' = InsertNewColumn(columnEditor, colName, pivoter.m_spreadIdx,
                                             editArgs.ndebug)
          /\ pivoter' = [pivoter EXCEPT !.newColumns = Append(@, columnEditor.made + 1),
                                        !.m_spreadIdx = @ + 1]
    /\ EditFrame

\* CommitPivot: the row of the partition was accepted.
CommitPivot ==
    /\ Editing
    /\ pivoter.pc = "Parse"
    /\ HasPivotSpec(editArgs.columnSpecs)
    /\ pivoter' = [pivoter EXCEPT !.newColumns = <<>>,
                                  !.m_collectingColumns = @ /\ editArgs.jagged]
    /\ pivoter' # pivoter
    /\ UNCHANGED columnEditor
    /\ EditFrame

\* One round of the loop of RejectPivot, the row of the partition having
\* been rejected: a column DoPivot has added is deleted.
RejectColumn ==
    /\ Editing
    /\ pivoter.pc \in {"Parse", "RejectPivot"}
    /\ pivoter.newColumns # <<>>
    /\ \E e \in DeleteColumn(columnEditor, ColumnOf(columnEditor, Head(pivoter.newColumns)),
                             editArgs.ndebug) :
          IF ~editArgs.ndebug /\ pivoter.m_spreadIdx # npos /\ pivoter.m_spreadIdx <= 0
          THEN columnEditor' = [e EXCEPT !.aborted = TRUE]
          ELSE columnEditor' = e
    /\ pivoter' = [pivoter EXCEPT !.newColumns = Tail(@),
                                  !.m_spreadIdx = IF @ # npos THEN @ - 1 ELSE @,
                                  !.pc = IF Tail(pivoter.newColumns) = <<>> THEN "Parse"
                                         ELSE "RejectPivot"]
    /\ EditFrame

\* XmlPivoter::Reset at the end of the gather pass of a jagged pivot.
EndGatherPass ==
    /\ Editing
    /\ pivoter.pc = "Parse"
    /\ editArgs.jagged
    /\ HasPivotSpec(editArgs.columnSpecs)
    /\ pivoter.newColumns = <<>>
    /\ pivoter.m_collectingColumns
    /\ pivoter' = [pivoter EXCEPT !.m_collectingColumns = FALSE]
    /\ UNCHANGED columnEditor
    /\ EditFrame

NextEdit ==
    \/ ParseColumnSpec
    \/ BindColumn
    \/ PivotName
    \/ CommitPivot
    \/ RejectColumn
    \/ EndGatherPass

SpecEdit == InitEdit /\ [][NextEdit]_vars

(***************************************************************************)
(* The pivoter on the rows of the query: XmlQuery::EmitRow gives every     *)
(* committed input row of a pivot query a row of m_seqRows and its name to *)
(* the partition, and XmlQuery::OnEndTag pivots the partition when it      *)
(* ends: DoPivot, JoinAndCommitRow on the pivoted row, then CommitPivot or *)
(* RejectPivot with RemoveRecycledRow.  A slot of a row holds the id of    *)
(* the column whose value was written to it, the sort column's id for its  *)
(* sort key, or 0 for an XmlValue() nobody wrote.                          *)
(***************************************************************************)
MaxPartitions == 2

MaxPartitionSize == 2

\* The names the input gives the pivoter in the partitions of this
\* specification.
PartitionNames == {"B", "c", "e"}

HasSortSpec(columnSpecs) == \E i \in 1..Len(columnSpecs) : columnSpecs[i] = SortSpec

HasAggregateSpec(columnSpecs) ==
    \E i \in 1..Len(columnSpecs) : "Aggregate" \in columnSpecs[i].flags

HasFilterSpec(columnSpecs) ==
    \E i \in 1..Len(columnSpecs) : "Filter" \in columnSpecs[i].flags

\* XmlQuerySpec::GetRowSize: the value columns, then the sort keys.
EditRowSize(e, columnSpecs) ==
    e.m_numValueColumns + (IF HasSortSpec(columnSpecs) THEN 1 ELSE 0)

\* XmlQuery::AllocRow on the rows of the pivoter.
PivotAllocRow(p, e, columnSpecs, currPartitionSize) ==
    LET keepAllRows == HasSortSpec(columnSpecs) /\ ~HasAggregateSpec(columnSpecs)
        pushed == (keepAllRows /\ ~p.RecycleStorage) \/ currPartitionSize > 0
                  \/ Len(p.m_seqRows) = 0
    IN  [p EXCEPT !.m_seqRows = IF pushed
                                THEN Append(@, [i \in 1..EditRowSize(e, columnSpecs) |-> 0])
                                ELSE @,
                  !.RecycleStorage = ~keepAllRows]

\* The first loop of DoPivot over the names of the partition: a name that
\* is no column is inserted at m_spreadIdx while columns are collected.
RECURSIVE GatherNames(_, _, _, _)
GatherNames(c, names, collecting, ndebug) ==
    IF names = <<>> \/ c.e.aborted THEN c
    ELSE IF FindColumn(c.e, Head(names)) = {} /\ collecting /\ c.m_spreadIdx # npos
    THEN GatherNames([e |-> InsertNewColumn(c.e, Head(names), c.m_spreadIdx, ndebug),
                      m_spreadIdx |-> c.m_spreadIdx + 1,
                      newColumns |-> Append(c.newColumns, c.e.made + 1),
                      insertionIndices |-> Append(c.insertionIndices, c.m_spreadIdx)],
                     Tail(names), collecting, ndebug)
    ELSE GatherNames(c, Tail(names), collecting, ndebug)

\* row.insert(row.begin() + idx, XmlValue()) for every insertion index in
\* turn.  An index past the end of the row is undefined: `ub` is set and
\* the slot is taken to end up at the end of the row where the process
\* goes on.
RECURSIVE InsertSlots(_, _)
InsertSlots(r, indices) ==
    IF indices = <<>> THEN r
    ELSE IF Head(indices) > Len(r.row)
    THEN InsertSlots([row |-> Append(r.row, 0), ub |-> TRUE], Tail(indices))
    ELSE InsertSlots([row |-> InsertBefore(r.row, 0, Head(indices)), ub |-> r.ub],
                     Tail(indices))

\* XmlQuery::EvaluateNonAggregateAndSortValues on a row of slots: the sort
\* key goes after the value columns, the value of an output column that
\* is no aggregate to its valueIdx.  A write past the end of the row is
\* undefined.
RECURSIVE EvaluateSlots(_, _, _, _)
EvaluateSlots(r, columns, i, numValueColumns) ==
    IF i > Len(columns) THEN r
    ELSE LET column == columns[i]
             at == IF column.name = SortSpec.name THEN numValueColumns + 1
                   ELSE IF IsOutput(column) /\ ~IsAggregate(column) THEN column.valueIdx + 1
                   ELSE 0
         IN  IF at = 0 THEN EvaluateSlots(r, columns, i + 1, numValueColumns)
             ELSE IF at > Len(r.row)
             THEN EvaluateSlots([r EXCEPT !.ub = TRUE], columns, i + 1, numValueColumns)
             ELSE EvaluateSlots([r EXCEPT !.row[at] = column.id], columns, i + 1,
                                numValueColumns)

\* XmlPivoter::DoPivot on the rows of the query: the columns of the new
\* names, the rows of the partition but the first erased, the slots of the
\* new columns inserted into that row at the indices of the columns.
DoPivot(p, e, ndebug) ==
    LET partitionSize == Len(p.m_names)
        firstRowIdx == Len(p.m_seqRows) - partitionSize
        gathered == GatherNames([e |-> e, m_spreadIdx |-> p.m_spreadIdx,
                                newColumns |-> <<>>, insertionIndices |-> <<>>],
                               p.m_names, p.m_collectingColumns, ndebug)
        rows == SubSeq(p.m_seqRows, 1, firstRowIdx + 1)
        pivoted == InsertSlots([row |-> rows[Len(rows)], ub |-> FALSE],
                               gathered.insertionIndices)
    IN  [e |-> gathered.e,
         p |-> [p EXCEPT !.m_spreadIdx = gathered.m_spreadIdx,
                         !.newColumns = gathered.newColumns,
                         !.m_seqRows = [rows EXCEPT ![Len(rows)] = pivoted.row],
                         !.m_names = <<>>],
         insertionIndices |-> gathered.insertionIndices,
         ub |-> pivoted.ub]

\* XmlPivoter::CommitPivot: the slots of the new columns are inserted into
\* every row of gathered.rows.
CommitPivotRows(p, insertionIndices, jagged) ==
    LET gapped == [i \in 1..Len(p.m_seqRows) |->
                     InsertSlots([row |-> p.m_seqRows[i], ub |-> FALSE], insertionIndices)]
    IN  [p |-> [p EXCEPT !.m_seqRows = [i \in 1..Len(gapped) |-> gapped[i].row],
                         !.m_collectingColumns = @ /\ jagged,
                         !.newColumns = <<>>,
                         !.last = "Accepted"],
         ub |-> \E i \in 1..Len(gapped) : gapped[i].ub]

\* RejectPivot deleting the first of the new columns only.
RejectPivotFirstOnly(c, newColumns, ndebug) ==
    IF newColumns = <<>> \/ c.e.aborted \/ c.e.crashed THEN {c}
    ELSE { [e |-> d, m_spreadIdx |-> IF c.m_spreadIdx # npos THEN c.m_spreadIdx - 1
                                     ELSE c.m_spreadIdx] :
           d \in DeleteColumn(c.e, ColumnOf(c.e, Head(newColumns)), ndebug) }

\* XmlPivoter::RejectPivot: the columns DoPivot has added are deleted, one
\* set of outcomes for each.
RECURSIVE RejectPivot(_, _, _)
RejectPivot(c, newColumns, ndebug) ==
    IF newColumns = <<>> \/ c.e.aborted \/ c.e.crashed THEN {c}
    ELSE UNION { RejectPivot([e |-> IF ~ndebug /\ c.m_spreadIdx # npos /\ c.m_spreadIdx <= 0
                                    THEN [d EXCEPT !.aborted = TRUE] ELSE d,
                              m_spreadIdx |-> IF c.m_spreadIdx # npos THEN c.m_spreadIdx - 1
                                              ELSE c.m_spreadIdx],
                             Tail(newColumns), ndebug) :
                 d \in DeleteColumn(c.e, ColumnOf(c.e, Head(newColumns)), ndebug) }

\* XmlQuery::EmitRow of a pivot query: AllocRow for the size of the
\* partition, and the name of the row joins the partition.
EmitPivotRow ==
    /\ Editing
    /\ pivoter.pc = "Parse"
    /\ HasPivotSpec(editArgs.columnSpecs)
    /\ pivoter.partitions < MaxPartitions
    /\ Len(pivoter.m_names) < MaxPartitionSize
    /\ \E colName \in PartitionNames :
          pivoter' = [PivotAllocRow(pivoter, columnEditor, editArgs.columnSpecs,
                                    Len(pivoter.m_names))
                      EXCEPT !.m_names = Append(@, colName)]
    /\ UNCHANGED columnEditor
    /\ EditFrame

\* XmlQuery::OnEndTag at the end of a partition.  JoinAndCommitRow
\* evaluates the pivoted row and tests the filters of the query, which a
\* query without a filter passes; the row is accepted or it is rejected
\* and removed.  Undefined behaviour ends the process or goes on.
OnEndTagPivot ==
    /\ Editing
    /\ pivoter.pc = "Parse"
    /\ pivoter.m_names # <<>>
    /\ LET done == DoPivot(pivoter, columnEditor, editArgs.ndebug)
           rows == done.p.m_seqRows
           evaluated == EvaluateSlots([row |-> rows[Len(rows)], ub |-> done.ub],
                                      done.e.m_columns, 1, done.e.m_numValueColumns)
           joined == [done.p EXCEPT !.m_seqRows[Len(rows)] = evaluated.row,
                                    !.partitions = @ + 1,
                                    !.discovered = Len(done.p.newColumns)]
       IN  IF done.e.aborted
           THEN /\ columnEditor' = done.e
                /\ pivoter' = [pivoter EXCEPT !.last = "Aborted"]
           ELSE \/ /\ evaluated.ub
                   /\ columnEditor' = [done.e EXCEPT !.crashed = TRUE]
                   /\ pivoter' = [joined EXCEPT !.last = "Crashed"]
                \/ LET committed == CommitPivotRows(joined, done.insertionIndices,
                                                    editArgs.jagged)
                   IN  \/ /\ ~committed.ub
                          /\ columnEditor' = done.e
                          /\ pivoter' = committed.p
                       \/ /\ committed.ub
                          /\ \E crashed \in BOOLEAN :
                                /\ columnEditor' = [done.e EXCEPT !.crashed = crashed]
                                /\ pivoter' = [committed.p EXCEPT
                                                 !.last = IF crashed THEN "Crashed" ELSE @]
                \/ /\ HasFilterSpec(editArgs.columnSpecs)
                   /\ \E c \in RejectPivot([e |-> done.e, m_spreadIdx |-> joined.m_spreadIdx],
                                           joined.newColumns, editArgs.ndebug) :
                         /\ columnEditor' = c.e
                         /\ pivoter' = [joined EXCEPT
                                          !.m_spreadIdx = c.m_spreadIdx,
                                          !.newColumns = <<>>,
                                          !.m_seqRows = SubSeq(@, 1, Len(@) - 1),
                                          !.RecycleStorage = FALSE,
                                          !.last = IF c.e.aborted THEN "Aborted"
                                                   ELSE IF c.e.crashed THEN "Crashed"
                                                   ELSE "Rejected"]
    /\ EditFrame

NextPivot ==
    \/ ParseColumnSpec
    \/ BindColumn
    \/ EmitPivotRow
    \/ OnEndTagPivot

SpecPivot == InitEdit /\ [][NextPivot]_vars

(***************************************************************************)
(* The expression parser on chains of infix operators.  The expression     *)
(* nodes are objects: `heap` gives the node at every address, a node is    *)
(* its operator and the addresses of its arguments, and a reference is a   *)
(* node without arguments that holds the position of its operand.  The     *)
(* tokens are the operands a, b, c, ... with the operators of exprArgs     *)
(* between them.                                                           *)
(***************************************************************************)
MaxOperators == 4

\* XmlOperator::Opcode of the infix operators of the chains, by position
\* in the enum.
OpMul == 6

OpAdd == 9

OpSub == 10

OpLT == 16

InfixOperators == {"*", "+", "-", "<"}

OpcodeOf(op) ==
    CASE op = "*" -> OpMul [] op = "+" -> OpAdd [] op = "-" -> OpSub [] op = "<" -> OpLT

\* The chains of operators of a length.
RECURSIVE Chains(_)
Chains(n) ==
    IF n = 0 THEN {<<>>}
    ELSE {Append(chain, op) : chain \in Chains(n - 1), op \in InfixOperators}

InfixChains == UNION {Chains(n) : n \in 0..MaxOperators}

\* An XmlExpr after Clear or after it was moved from.
ClearedExpr == [op |-> "", args |-> <<>>, operand |-> 0]

\* Lookahead(0) is an infix operator: the operator after the last operand
\* that was read, operand `pos` being the next to read.
IsInfix(st) == st.pos - 1 <= Len(st.ops) /\ st.pos > 1

\* The tree of the node at an address, <<"ref", operand>> or
\* <<operator, left, right>>.
RECURSIVE TreeAt(_, _, _)
TreeAt(heap, addr, fuel) ==
    IF fuel = 0 THEN <<"cycle">>
    ELSE IF heap[addr].args = <<>> THEN <<"ref", heap[addr].operand>>
    ELSE <<heap[addr].op, TreeAt(heap, heap[addr].args[1], fuel - 1),
           TreeAt(heap, heap[addr].args[2], fuel - 1)>>

\* The rewrite at the end of ParseInfixOperator: the node of the operator
\* goes to the top, the former top below it to the left, and the left
\* argument of the operator becomes the right argument of the former top.
LeftAssociativeFixup(heap, expr, parent) ==
    LET saveTop == heap[parent]
        save2 == heap[heap[expr].args[1]]
        moved == [heap EXCEPT ![parent] = heap[expr], ![expr] = ClearedExpr]
        lowered == [moved EXCEPT ![moved[parent].args[1]] = saveTop]
    IN  [lowered EXCEPT ![lowered[lowered[parent].args[1]].args[2]] = save2]

RECURSIVE ParseExpr(_, _, _)
RECURSIVE ParseInfixOperator(_, _, _)
RECURSIVE ParseInfixOperators(_, _, _)

\* XmlQuerySpec::ParseInfixOperator: the expression becomes the left
\* argument of a new node of the operator, the right argument is parsed
\* with the node as its parent, and the tree is rewritten when the parent
\* does not bind looser than the operator.
ParseInfixOperator(st, expr, parent) ==
    LET op == st.ops[st.pos - 1]
        left == Len(st.heap) + 1
        right == Len(st.heap) + 2
        heap == [st.heap \o <<st.heap[expr], ClearedExpr>>
                 EXCEPT ![expr] = [op |-> op, args |-> <<left, right>>, operand |-> 0]]
        parsed == ParseExpr([st EXCEPT !.heap = heap], right, expr)
        leftAssociativeFixup ==
            parent # 0 /\ OpcodeOf(parsed.heap[parent].op) <= OpcodeOf(op)
    IN  IF leftAssociativeFixup
        THEN [parsed EXCEPT !.heap = LeftAssociativeFixup(parsed.heap, expr, parent)]
        ELSE parsed

\* The rounds of the loop of ParseExpr after the first: as long as an
\* infix operator is ahead, ParseInfixOperator.
ParseInfixOperators(st, expr, parent) ==
    IF IsInfix(st) THEN ParseInfixOperators(ParseInfixOperator(st, expr, parent), expr, parent)
    ELSE st

\* XmlQuerySpec::ParseExpr on an operand: ParseRef makes the node a
\* reference, then the loop goes on over the infix operators.
ParseExpr(st, expr, parent) ==
    ParseInfixOperators([st EXCEPT !.heap[expr] = [op |-> "ref", args |-> <<>>,
                                                    operand |-> st.pos],
                                   !.pos = @ + 1],
                        expr, parent)

\* ParseColumnExpr on the chain: the expression of the column is a new
\* node without a parent.
ParseChain(ops) ==
    LET parsed == ParseExpr([heap |-> <<ClearedExpr>>, ops |-> ops, pos |-> 1], 1, 0)
    IN  TreeAt(parsed.heap, 1, Len(parsed.heap) + 1)

InitInfix ==
    /\ cfg = 1
    /\ m_querySpec = QuerySpecs[cfg]
    /\ m_indexedJoin = IndexedJoin(Queries[cfg].joinRows)
    /\ input = <<>>
    /\ rowwise = FALSE
    /\ doc = <<>>
    /\ InitRun
    /\ ColumnsParsed
    /\ NoConversion
    /\ NoMatching
    /\ NoEditing
    /\ exprArgs \in InfixChains
    /\ exprResult = <<>>

\* Nothing but the result of the function changes.
ExprFrame ==
    /\ UNCHANGED <<exprArgs, editVars>>
    /\ UNCHANGED <<cfg, input, rowwise, m_querySpec, m_indexedJoin, columnArgs>>
    /\ UNCHANGED <<parseResult, convertArgs, converted, compareArgs, compared>>
    /\ UNCHANGED <<matchArgs, openTags, matchLog>>
    /\ UNCHANGED <<controlC, pc, passes, passIdx, passLog, pos, parsedValue>>
    /\ UNCHANGED queryVars
    /\ UNCHANGED parserVars

ParseInfixChain ==
    /\ exprResult = <<>>
    /\ exprResult' = ParseChain(exprArgs)
    /\ ExprFrame

NextInfix == ParseInfixChain

SpecInfix == InitInfix /\ [][NextInfix]_vars

(***************************************************************************)
(* An aggregator that ingests the values of exprArgs one by one, as the    *)
(* evaluator of an aggregate operator does in the main pass with           *)
(* aggr.Update(arg0.rval).                                                 *)
(***************************************************************************)
MaxIngested == 3

AggrValues == {Fin(0 - 2), Fin(0 - 1), Fin(0), Fin(1), Fin(2)}

InitAggr ==
    /\ cfg = 1
    /\ m_querySpec = QuerySpecs[cfg]
    /\ m_indexedJoin = IndexedJoin(Queries[cfg].joinRows)
    /\ input = <<>>
    /\ rowwise = FALSE
    /\ doc = <<>>
    /\ InitRun
    /\ ColumnsParsed
    /\ NoConversion
    /\ NoMatching
    /\ NoEditing
    /\ exprArgs \in UNION {[1..n -> AggrValues] : n \in 1..MaxIngested}
    /\ exprResult = [aggr |-> NewAggregate, ingested |-> 0]

IngestValue ==
    /\ exprResult.ingested < Len(exprArgs)
    /\ exprResult' = [aggr |-> Update(exprResult.aggr, exprArgs[exprResult.ingested + 1]),
                      ingested |-> exprResult.ingested + 1]
    /\ ExprFrame

NextAggr == IngestValue

SpecAggr == InitAggr /\ [][NextAggr]_vars

(***************************************************************************)
(* if(c,t,f): the rule of XmlExprTypes::InferType for OpIf and the case of *)
(* XmlExprEvaluator::Evaluate (SpecIf).  exprArgs is the three argument    *)
(* expressions as they were written, exprResult the value of the if once   *)
(* it is evaluated.                                                        *)
(***************************************************************************)
\* datetime(s) after its own type inference and evaluation.
DateTimeExpr(s) ==
    [Expr("OpDateTime", <<StringLiteral(s)>>) EXCEPT
        !.m_value = DateTimeValue(FromString(s))]

\* The conditions of the model: a comparison that holds, one that does
\* not, and a number and a string that are made Boolean.
IfConditions ==
    {Expr("OpEQ", <<NumberLiteral(1), NumberLiteral(1)>>),
     Expr("OpLT", <<NumberLiteral(1), NumberLiteral(1)>>),
     NumberLiteral(2), StringLiteral(<<>>)}

\* The branches of the model, of every type.  The integers are not
\* negative.
IfBranches ==
    {StringLiteral(<<"a">>), StringLiteral(<<"2">>),
     NumberLiteral(1), NumberLiteral(2),
     Expr("OpInt", <<NumberLiteral(0)>>), Expr("OpInt", <<NumberLiteral(3)>>),
     DateTimeExpr(<<"1", "9", "7", "0", "-", "1", "-", "2">>),
     Expr("OpEQ", <<NumberLiteral(1), NumberLiteral(1)>>),
     Expr("OpLT", <<NumberLiteral(1), NumberLiteral(1)>>)}

\* InferType of an OpIf whose arguments have their types.
InferIf(e) ==
    LET arg0 == e.m_args[1]
        arg1 == e.m_args[2]
        arg2 == e.m_args[3]
        type == ConstrainType(arg1.m_value.type, arg2.m_value.type)
    IN  [SetType(e, type) EXCEPT
            !.m_args = <<ChangeType(arg0, "Boolean"), ChangeType(arg1, type),
                         ChangeType(arg2, type)>>]

\* The member rval of a value whose member ival was set: the bytes of the
\* integer read as a double.
RvalOfIval(ival) == IF ival = 0 THEN Fin(0) ELSE Subnormal

\* The value the case OpIf hands to SetValue.  The conditional of the
\* Integer case is of ival and rval, so it is a double.
IfResult(arg0, arg1, arg2) ==
    CASE arg1.type = "Real" -> RealValue(IF arg0.bval THEN arg1.rval ELSE arg2.rval)
      [] arg1.type = "Integer" ->
            RealValue(IF arg0.bval THEN Fin(arg1.ival) ELSE RvalOfIval(arg2.ival))
      [] arg1.type = "Boolean" ->
            BooleanValue(IF arg0.bval THEN arg1.bval ELSE arg2.bval)
      [] arg1.type = "String" ->
            StringValue(IF arg0.bval THEN arg1.sval ELSE arg2.sval)
      [] arg1.type = "DateTime" ->
            DateTimeValue(IF arg0.bval THEN arg1.dtval ELSE arg2.dtval)
      [] OTHER -> IntegerValue(arg1.ival)

\* Evaluate of an OpIf: the arguments, then the case, whose SetValue
\* converts to the type of the expression.
EvaluateIf(e, ctx, parsed) ==
    Convert(IfResult(Evaluate(e.m_args[1], ctx, parsed, <<>>),
                     Evaluate(e.m_args[2], ctx, parsed, <<>>),
                     Evaluate(e.m_args[3], ctx, parsed, <<>>)),
            e.m_value.type)

\* The if of the arguments after type inference.
IfExpr(args) ==
    InferIf(Expr("OpIf", <<InferType(args.c), InferType(args.t), InferType(args.f)>>))

InitIf ==
    /\ cfg = 1
    /\ m_querySpec = QuerySpecs[cfg]
    /\ m_indexedJoin = IndexedJoin(Queries[cfg].joinRows)
    /\ input = <<>>
    /\ rowwise = FALSE
    /\ doc = <<>>
    /\ InitRun
    /\ ColumnsParsed
    /\ NoConversion
    /\ NoMatching
    /\ NoEditing
    /\ exprArgs \in [c : IfConditions, t : IfBranches, f : IfBranches]
    /\ exprResult = <<>>

EvaluateIfExpr ==
    /\ exprResult = <<>>
    /\ exprResult' = <<EvaluateIf(IfExpr(exprArgs), context, parsedValue)>>
    /\ ExprFrame

NextIf == EvaluateIfExpr

SpecIf == InitIf /\ [][NextIf]_vars

(***************************************************************************)
(* References to columns by name (SpecRef).  exprArgs is the named columns *)
(* of a query and the values of the path v in the rows of the input;       *)
(* exprResult is the values the column expressions hold, which Evaluate    *)
(* leaves in them from one row to the next, the rows evaluated, and the    *)
(* value every reference to a column was given in each of them.            *)
(***************************************************************************)
\* The most rows evaluated.
MaxEvaluated == 3

\* ParseRef on a name of m_allColumnNames that is not a name of the current
\* column: a reference to the column of that name.
ColumnRef(name) == [Expr("OpColumnRef", <<>>) EXCEPT !.ref = name]

NamedColumn(name, expr) == [name |-> name, expr |-> expr]

\* B is the path v; A refers to B, converts it to an integer, or negates
\* it; A is declared before B or after it.
RefQueries ==
    { <<NamedColumn("A", ColumnRef("B")), NamedColumn("B", vRef)>>,
      <<NamedColumn("B", vRef), NamedColumn("A", ColumnRef("B"))>>,
      <<NamedColumn("A", Op1("OpInt", ColumnRef("B"))), NamedColumn("B", vRef)>>,
      <<NamedColumn("B", vRef), NamedColumn("A", Op1("OpInt", ColumnRef("B")))>>,
      <<NamedColumn("A", Op1("OpNeg", ColumnRef("B"))),
        NamedColumn("B", Op1("OpReal", vRef))>>,
      <<NamedColumn("B", Op1("OpReal", vRef)),
        NamedColumn("A", Op1("OpNeg", ColumnRef("B")))>> }

RefValues == {<<"1">>, <<"2">>}

\* PostProcessRefs on a reference: the column of the name, and from a
\* column that is itself a reference the column it refers to.
RECURSIVE ResolveColumn(_, _, _)
ResolveColumn(columns, name, fuel) ==
    LET column == CHOOSE i \in 1..Len(columns) : columns[i].name = name
    IN  IF columns[column].expr.opcode = "OpColumnRef" /\ fuel > 0
        THEN ResolveColumn(columns, columns[column].expr.ref, fuel - 1)
        ELSE column

\* The expression with its references resolved: index is the index of the
\* column.
RECURSIVE ResolveRefs(_, _)
ResolveRefs(columns, expr) ==
    IF expr.opcode = "OpColumnRef"
    THEN [expr EXCEPT !.index = ResolveColumn(columns, expr.ref, Len(columns)) - 1]
    ELSE [expr EXCEPT !.m_args = [i \in 1..Len(expr.m_args) |->
                                     ResolveRefs(columns, expr.m_args[i])]]

\* The column expressions of the query spec: InferType on each as it is
\* parsed, then PostProcessRefs.
RefColumns(columns) ==
    [i \in 1..Len(columns) |-> ResolveRefs(columns, InferType(columns[i].expr))]

\* Evaluate, `cached` being the values the column expressions hold: a
\* reference to a column that is not joined takes the value held by the
\* expression of the column, converted to its own type.
RECURSIVE EvaluateCached(_, _, _, _)
EvaluateCached(expr, cached, ctx, parsed) ==
    IF expr.opcode = "OpColumnRef" /\ ~expr.joined
    THEN Convert(cached[expr.index + 1], expr.m_value.type)
    ELSE IF SetsValue(expr, ctx)
    THEN Convert(OperatorResult(expr, ctx, parsed, <<>>,
                                EvaluateCached(expr.m_args[1], cached, ctx, parsed),
                                EvaluateCached(expr.m_args[2], cached, ctx, parsed)),
                 expr.m_value.type)
    ELSE expr.m_value

\* EvaluateNonAggregateAndSortValues on output columns that are no
\* aggregates: the values held by the column expressions after the columns
\* up to c were evaluated in the order of the list.
RECURSIVE EvaluateColumns(_, _, _, _, _)
EvaluateColumns(columns, cached, ctx, parsed, c) ==
    IF c = 0 THEN cached
    ELSE LET before == EvaluateColumns(columns, cached, ctx, parsed, c - 1)
         IN  [before EXCEPT ![c] = EvaluateCached(columns[c], before, ctx, parsed)]

\* The reference of a column expression of RefQueries, <<>> when it has
\* none.
RefOf(expr) ==
    IF expr.opcode = "OpColumnRef" THEN <<expr>>
    ELSE IF Len(expr.m_args) > 0 /\ expr.m_args[1].opcode = "OpColumnRef"
    THEN <<expr.m_args[1]>>
    ELSE <<>>

\* The value the reference of column c is given when the column is
\* evaluated.
ValueUsed(columns, cached, ctx, parsed, c) ==
    IF RefOf(columns[c]) = <<>> THEN <<>>
    ELSE <<EvaluateCached(RefOf(columns[c])[1],
                          EvaluateColumns(columns, cached, ctx, parsed, c - 1),
                          ctx, parsed)>>

InitRef ==
    /\ cfg = 1
    /\ m_querySpec = QuerySpecs[cfg]
    /\ m_indexedJoin = IndexedJoin(Queries[cfg].joinRows)
    /\ input = <<>>
    /\ rowwise = FALSE
    /\ doc = <<>>
    /\ InitRun
    /\ ColumnsParsed
    /\ NoConversion
    /\ NoMatching
    /\ NoEditing
    /\ \E columns \in RefQueries :
          /\ exprArgs \in {[columns |-> columns, values |-> values] :
                              values \in UNION {[1..n -> RefValues] : n \in 1..MaxEvaluated}}
          /\ exprResult = [cached |-> [c \in 1..Len(columns) |->
                                          RefColumns(columns)[c].m_value],
                           rows |-> <<>>, used |-> <<>>]

\* The row of the next values of the input is evaluated.
EvaluateRow ==
    /\ Len(exprResult.rows) < Len(exprArgs.values)
    /\ LET columns == RefColumns(exprArgs.columns)
           parsed == [k |-> <<>>, v |-> exprArgs.values[Len(exprResult.rows) + 1]]
           after == EvaluateColumns(columns, exprResult.cached, context, parsed,
                                    Len(columns))
       IN  exprResult' =
              [cached |-> after,
               rows |-> Append(exprResult.rows, after),
               used |-> Append(exprResult.used,
                               [c \in 1..Len(columns) |->
                                   ValueUsed(columns, exprResult.cached, context,
                                             parsed, c)])]
    /\ ExprFrame

NextRef == EvaluateRow

SpecRef == InitRef /\ [][NextRef]_vars

(***************************************************************************)
(* The properties.  What a query uses is read off its column expressions   *)
(* as they were written, not off the query spec made of them.              *)
(***************************************************************************)
RECURSIVE UsesOperator(_, _)
UsesOperator(expr, opcodes) ==
    \/ expr.opcode \in opcodes
    \/ \E i \in 1..Len(expr.m_args) : UsesOperator(expr.m_args[i], opcodes)

QueryUses(opcodes) ==
    \E i \in 1..Len(Queries[cfg].columnSpecs) :
        UsesOperator(Queries[cfg].columnSpecs[i], opcodes)

\* The columns of the query that are neither directives nor filters.
OutputColumnSpecs ==
    {i \in 1..Len(Queries[cfg].columnSpecs) :
        Queries[cfg].columnSpecs[i].opcode \notin DirectiveOps \cup {"OpPivot"}}

JaggedPivot ==
    \E i \in 1..Len(Queries[cfg].columnSpecs) :
        /\ Queries[cfg].columnSpecs[i].opcode = "OpPivot"
        /\ Len(Queries[cfg].columnSpecs[i].m_args) = 3
        /\ Queries[cfg].columnSpecs[i].m_args[3].m_value.bval

\* The passes in their fixed order with the gather pass present iff
\* `gather` and the stored-values pass present iff `stored`.
PassList(gather, stored) ==
    (IF gather THEN <<"GatherDataPass">> ELSE <<>>) \o <<"MainPass">>
    \o (IF stored THEN <<"StoredValuesPass">> ELSE <<>>)

\* The calls DoPasses makes for a list of passes when it runs all of them.
RECURSIVE PassCalls(_)
PassCalls(passTypes) ==
    IF passTypes = <<>> THEN <<>>
    ELSE << <<"Reset", Head(passTypes)>>,
            <<IF Head(passTypes) = "StoredValuesPass" THEN "OutputStoredRows" ELSE "Parse",
              Head(passTypes)>> >> \o PassCalls(Tail(passTypes))

IsPrefix(s, t) == Len(s) <= Len(t) /\ s = SubSeq(t, 1, Len(s))

\* The run of DoPasses against a list of passes: the calls made are the
\* first calls of the list, all of them when DoPasses returns without
\* Control-C, and a pass runs in the context Reset set to its type.
RunsPasses(passTypes) ==
    /\ passes = passTypes
    /\ IsPrefix(passLog, PassCalls(passTypes))
    /\ pc = "Done" /\ ~controlC => passLog = PassCalls(passTypes)
    /\ pc \in {"Parse", "OutputStoredRows"} =>
           /\ context.passType = passTypes[passIdx]
           /\ passLog[Len(passLog)] = <<"Reset", passTypes[passIdx]>>

RECURSIVE StripTrailing(_)
StripTrailing(str) ==
    IF str # <<>> /\ str[Len(str)] \in Whitespace
    THEN StripTrailing(SubSeq(str, 1, Len(str) - 1))
    ELSE str

Trimmed(str) == StripTrailing(TrimLeading(str))

\* The elements of the field `label` that the scan has closed.
FieldsClosed(label) ==
    {i \in 1..scanPos :
        /\ ToLower(doc[i].label) = label
        /\ doc[i].kind = "end" \/ doc[i].selfTerminating}

\* The last field of a record that the query refers to.
LastField == IF "v" \in InputPathRefs(Queries[cfg].columnSpecs) THEN "v" ELSE "k"

\* The values of the fields of record j that the query refers to, with
\* `trim` as the trimming of the character data.
RecordValues(j, trim(_)) ==
    [name \in {"k", "v"} |->
        IF name \in InputPathRefs(Queries[cfg].columnSpecs) THEN trim(input[j][name])
        ELSE <<>>]

\* In the main pass the rows emitted are those of the records the scan
\* has closed, in the order of the records, with the values of their own
\* record; the query k v puts each of them out as it is.
RowPerRecord(trim(_)) ==
    context.passType = "MainPass" =>
        /\ Len(trace) = Cardinality(FieldsClosed(LastField))
        /\ \A j \in 1..Len(trace) : trace[j].parsedValue = RecordValues(j, trim)
        /\ cfg = 25 =>
               /\ Len(output) = Len(trace)
               /\ \A j \in 1..Len(output) :
                      /\ output[j].row[1].sval = trim(input[j].k)
                      /\ output[j].row[2].sval = trim(input[j].v)

\* C2: for a document of sibling records under one root, each with the
\* queried fields once and in the same order, exactly one row is emitted
\* per record, in record order, and each value of a row is the trimmed
\* character data of the field of that same record.
C2_AsClaimed == RowPerRecord(Trimmed)

\* C2 with the trimming TrimWhitespace does, which leaves a carriage
\* return at the end of the character data.
C2_WithTrimWhitespace == RowPerRecord(TrimWhitespace)

\* Two records are parsed to the end and their rows put out.
C2_TwoRows ==
    /\ cfg = 25
    /\ pc = "Done"
    /\ ~controlC
    /\ Len(input) = 2
    /\ Len(output) = 2

\* The context of a row iteration of the trace: the join row it was at.
IterationContext(e) ==
    [context EXCEPT
        !.passType = e.passType,
        !.joinTable = IF e.emptyOuterJoin \/ e.joinTableRowIdx = npos THEN <<>>
                      ELSE m_indexedJoin[XmlRowHash(0, <<>>)],
        !.joinTableRowIdx = e.joinTableRowIdx,
        !.emptyOuterJoin = e.emptyOuterJoin]

\* Every where[...] column without an aggregate is true for the iteration;
\* the where of the join equality counts as true on an empty outer join.
FiltersTrue(e) ==
    \A c \in 1..Len(m_querySpec.m_columns) :
        (IsFilter(m_querySpec.m_columns[c]) /\ ~IsAggregate(m_querySpec.m_columns[c])) =>
            \/ e.emptyOuterJoin /\ JoinEqualityWhere(m_querySpec.m_columns[c].expr)
            \/ Evaluate(m_querySpec.m_columns[c].expr, IterationContext(e),
                        e.parsedValue, <<>>).bval

Passed(e) == e.passed

\* The row iterations a parse of the records 1..n of the input makes when
\* nothing stops it: one per record, or one per record and join row.
JoinRowCount ==
    IF "LeftSideOfJoin" \notin m_querySpec.m_flags THEN 1
    ELSE IF Queries[cfg].joinRows # <<>> THEN Len(Queries[cfg].joinRows)
    ELSE IF m_querySpec.outer THEN 1 ELSE 0

IterationRecord(i) == input[((i - 1) \div JoinRowCount) + 1]

SameValues(row1, row2) ==
    \A c \in 1..Len(m_querySpec.m_columns) :
        (IsOutput(m_querySpec.m_columns[c]) /\ ~IsAggregate(m_querySpec.m_columns[c])) =>
            row1[m_querySpec.m_columns[c].valueIdx + 1]
                = row2[m_querySpec.m_columns[c].valueIdx + 1]

\* The row is the row of an iteration whose filters are true.
PassedFilters(row) ==
    \E j \in 1..Len(trace) : FiltersTrue(trace[j]) /\ SameValues(row, trace[j].row)

\* The rows of m_seqRows that are kept: the tail slot is not when it is
\* marked for recycling.
KeptRows(seqRows, flags) ==
    IF "RecycleStorage" \in flags /\ seqRows # <<>>
    THEN SubSeq(seqRows, 1, Len(seqRows) - 1) ELSE seqRows

\* Every row that is stored or was handed to the row callback is the row
\* of an iteration whose filters are true.
RowsPassFilters ==
    /\ \A i \in 1..Len(output) : PassedFilters(output[i].row)
    /\ \A i \in 1..Len(m_distinctRows) : PassedFilters(m_distinctRows[i].key)
    /\ \A i \in 1..Len(KeptRows(m_seqRows, m_flags)) : PassedFilters(m_seqRows[i])

\* A step that emits a row all of whose iterations fail a filter leaves the
\* row storage as it was.
DropKeepsStorage ==
    (/\ Len(trace') > Len(trace)
     /\ \A j \in (Len(trace) + 1)..Len(trace') :
            trace'[j].evaluated /\ ~FiltersTrue(trace'[j]))
    => /\ KeptRows(m_seqRows', m_flags') = KeptRows(m_seqRows, m_flags)
       /\ m_rowRefs' = m_rowRefs
       /\ m_aggregates' = m_aggregates
       /\ m_distinctRows' = m_distinctRows
       /\ output' = output

\* C4 as claimed: a row is stored or handed to the row callback only if
\* every where[...] column without an aggregate is true for it (the where
\* of the join equality aside on an empty outer join), and a row that
\* fails a filter is dropped with the row storage (stored rows, row
\* references, aggregators, distinct map) as it was before.
C4_AsClaimed == []RowsPassFilters /\ [][DropKeepsStorage]_vars

\* The second half of C4 alone holds: a dropped row leaves the storage as
\* it was (the recycled tail slot of m_seqRows aside).
C4_FrameOnly == [][DropKeepsStorage]_vars

\* The first half of C4 holds in every query but the join with a sort.
C4_RowsExceptJoinSort == cfg # 20 => RowsPassFilters

\* The number a field v of the input stands for.
NumberOf(v) == IF v = <<"-", "1">> THEN 0 - 1 ELSE IF v = <<"0">> THEN 0 ELSE 1

\* The groups of an aggregated query in the order of their first row that
\* passes the filters, among the first n iterations.
GroupsStep(groups, e) ==
    IF FiltersTrue(e) /\ \A g \in 1..Len(groups) : groups[g] # e.parsedValue.k
    THEN Append(groups, e.parsedValue.k) ELSE groups

RECURSIVE GroupsUpTo(_)
GroupsUpTo(n) == IF n = 0 THEN <<>> ELSE GroupsStep(GroupsUpTo(n - 1), trace[n])

\* The iterations of the group of k that pass the filters.
GroupRows(k) == {j \in 1..Len(trace) : FiltersTrue(trace[j]) /\ trace[j].parsedValue.k = k}

GroupValues(k) == {NumberOf(trace[j].parsedValue.v) : j \in GroupRows(k)}

RECURSIVE GroupSum(_, _)
GroupSum(k, n) ==
    IF n = 0 THEN 0
    ELSE GroupSum(k, n - 1) + (IF n \in GroupRows(k) THEN NumberOf(trace[n].parsedValue.v)
                               ELSE 0)

\* The aggregate of an aggregate operator over the rows of the group of k.
GroupAggregate(opcode, k) ==
    CASE opcode = "OpSum" -> RealValue(Fin(GroupSum(k, Len(trace))))
      [] opcode = "OpCount" -> IntegerValue(Cardinality(GroupRows(k)))
      [] opcode = "OpMaxAggr" ->
            RealValue(Fin(CHOOSE x \in GroupValues(k) : \A y \in GroupValues(k) : y <= x))
      [] opcode = "OpMinAggr" ->
            RealValue(Fin(CHOOSE x \in GroupValues(k) : \A y \in GroupValues(k) : x <= y))

\* The place of the group of k in the order of first appearance.
GroupIndex(groups, k) == CHOOSE g \in 1..Len(groups) : groups[g] = k

\* One stored row and one aggregator row per group, in the order of first
\* appearance, every aggregator having ingested each row of its group once.
GroupsStored(groups) ==
    /\ Len(m_distinctRows) = Len(groups)
    /\ Len(m_rowRefs) = Len(groups)
    /\ Len(m_aggregates) = Len(groups)
    /\ \A g \in 1..Len(groups) :
          /\ m_distinctRows[g].key[1].sval = groups[g]
          /\ m_distinctRows[g].value = g - 1
          /\ context.passType = "MainPass" =>
                 m_rowRefs[g].first = [store |-> "distinct", at |-> g]
          /\ \A a \in 1..Len(m_aggregates[g]) :
                m_aggregates[g][a].m_count = Cardinality(GroupRows(groups[g]))

\* The aggregate columns of the rows output hold the aggregates of the
\* aggregate operators in `opcodes` over the rows of their groups.
GroupsOutput(groups, opcodes) ==
    /\ \A i \in 1..Len(output) :
          /\ \E g \in 1..Len(groups) : groups[g] = output[i].row[1].sval
          /\ \A c \in 1..Len(m_querySpec.m_columns) :
                m_querySpec.m_columns[c].expr.opcode \in opcodes =>
                    output[i].row[m_querySpec.m_columns[c].valueIdx + 1]
                        = GroupAggregate(m_querySpec.m_columns[c].expr.opcode,
                                         output[i].row[1].sval)
    /\ ~QueryUses({"OpSort"}) =>
          \A i, j \in 1..Len(output) :
              i < j => GroupIndex(groups, output[i].row[1].sval)
                          < GroupIndex(groups, output[j].row[1].sval)
    /\ (pc = "Done" /\ ~controlC /\ cfg = 8) => Len(output) = Len(groups)

\* C5 as claimed: in an aggregated query the rows are grouped by their
\* non-aggregate output values, the first row of a group that passes the
\* filters makes one stored row and one aggregator row, every later one is
\* ingested once into that aggregator row, in the stored-values pass every
\* aggregate column holds the aggregate over the rows of the group that
\* passed the filters, and without a sort the groups are output in the
\* order of their first appearance.
C5_AsClaimed ==
    (Aggregated(m_querySpec) /\ context.passType # "PassNotSet") =>
        /\ GroupsStored(GroupsUpTo(Len(trace)))
        /\ GroupsOutput(GroupsUpTo(Len(trace)), AggregateOps)

\* C5 holds for the aggregates other than max.
C5_ExceptMax ==
    (Aggregated(m_querySpec) /\ context.passType # "PassNotSet") =>
        /\ GroupsStored(GroupsUpTo(Len(trace)))
        /\ GroupsOutput(GroupsUpTo(Len(trace)), AggregateOps \ {"OpMaxAggr"})

\* The stored rows of a distinct or aggregated query that equal `row` on
\* the value prefix under the row equality.
StoredEqual(row) ==
    {i \in 1..Len(m_distinctRows) :
        equalsXmlRow(m_distinctRows[i].key, row, GetNumValueColumns(m_querySpec))}

\* C6: in a distinct or aggregated query no two stored rows are equal on
\* the value prefix (the first GetNumValueColumns() values) under the row
\* equality; a row that passes the filters and equals a stored row on the
\* prefix adds no stored row, so every such row has exactly one stored row
\* equal to it and every stored row is the row of one that passed.
C6_DistinctRows ==
    (Distinct(m_querySpec) /\ context.passType # "PassNotSet") =>
        /\ \A i \in 1..Len(m_distinctRows) : StoredEqual(m_distinctRows[i].key) = {i}
        /\ Len(m_rowRefs) = Len(m_distinctRows)
        /\ context.passType = "MainPass" =>
              /\ \A j \in 1..Len(trace) :
                    trace[j].passed => Cardinality(StoredEqual(trace[j].row)) = 1
              /\ \A i \in 1..Len(m_distinctRows) :
                    \E j \in 1..Len(trace) :
                        trace[j].passed /\ i \in StoredEqual(trace[j].row)

\* C6 witness: the query k, distinct has stored three rows of which the
\* third equals the first: two rows are stored.
C6_Witness ==
    /\ cfg = 6
    /\ context.passType = "MainPass"
    /\ Len(trace) = 3
    /\ trace[3].passed
    /\ trace[3].parsedValue.k = trace[1].parsedValue.k
    /\ trace[2].parsedValue.k # trace[1].parsedValue.k
    /\ Len(m_distinctRows) = 2

\* The sort arguments of the query and the sort keys of a row.
SortArgs == m_querySpec.m_columns[m_querySpec.m_sortColumn].expr.m_args

SortKey(row, i) == row[GetNumValueColumns(m_querySpec) + i]

\* Key i is reversed: a string-typed sort argument whose root is neg.
Reversed(i) == SortArgs[i].opcode = "OpNeg" /\ SortArgs[i].m_value.type = "String"

\* The keys of row1 against those of row2 from key i on, left to right
\* with Compare, the comparison of a reversed key turned round.
RECURSIVE CompareKeys(_, _, _)
CompareKeys(row1, row2, i) ==
    IF i > Len(SortArgs) THEN 0
    ELSE IF Compare(SortKey(row1, i), SortKey(row2, i)) = 0
    THEN CompareKeys(row1, row2, i + 1)
    ELSE IF Reversed(i) THEN 0 - Compare(SortKey(row1, i), SortKey(row2, i))
    ELSE Compare(SortKey(row1, i), SortKey(row2, i))

HasNaNKey(row) ==
    \E i \in 1..Len(SortArgs) :
        SortKey(row, i).type = "Real" /\ SortKey(row, i).rval.cls = "nan"

\* C7 as claimed: after SortRows the sort keys of the row at an output
\* position do not compare greater than those of a row at a later one,
\* the keys compared left to right with Compare and a key reversed exactly
\* when it is a string-typed sort argument whose root is neg.
C7_AsClaimed ==
    NeedsSorting(m_querySpec) =>
        \A i, j \in 1..Len(output) :
            i < j => CompareKeys(output[i].row, output[j].row, 1) <= 0

\* C7 holds when no row has a NaN sort key.
C7_WithoutNaN ==
    (NeedsSorting(m_querySpec) /\ \A i \in 1..Len(output) : ~HasNaNKey(output[i].row)) =>
        \A i, j \in 1..Len(output) :
            i < j => CompareKeys(output[i].row, output[j].row, 1) <= 0

\* The stored-values pass has sorted m_rowRefs.
Sorted ==
    /\ NeedsSorting(m_querySpec)
    /\ passLog # <<>>
    /\ passLog[Len(passLog)] = <<"OutputStoredRows", "StoredValuesPass">>

\* C8 as claimed: the sort is stable, rows whose sort keys compare equal
\* are output in the order in which they were stored in the main pass (the
\* runs with a NaN sort key, which compares equal to nothing, left aside).
C8_AsClaimed ==
    (Sorted /\ \A i \in 1..Len(m_rowRefs) : ~HasNaNKey(Deref(Q, m_rowRefs[i].first))) =>
        \A i, j \in 1..Len(m_rowRefs) :
            (/\ i < j
             /\ CompareKeys(Deref(Q, m_rowRefs[i].first), Deref(Q, m_rowRefs[j].first), 1) = 0)
            => m_rowRefs[i].first.at < m_rowRefs[j].first.at

\* The n of the top[n] of the query.
TopOfQuery ==
    CHOOSE n \in 0..2 :
        \E i \in 1..Len(Queries[cfg].columnSpecs) : Queries[cfg].columnSpecs[i] = Top(n)

\* C9: with top[n] at most n rows are handed to the row callback over the
\* whole run, each printed once, in every mode; with a sort they are the
\* rows at the first n places of the sorted order (no row sorted behind
\* them compares less), all n of them when that many are stored; with
\* n = 0 no row is output.
C9_TopRows ==
    QueryUses({"OpTop"}) =>
        /\ Len(output) <= TopOfQuery
        /\ TopOfQuery = 0 => output = <<>>
        /\ \A i \in 1..Len(output) : output[i].count = 1
        /\ Sorted =>
              /\ \A i \in 1..Len(output) :
                    /\ output[i].rowIdx = i - 1
                    /\ output[i].row = Deref(Q, m_rowRefs[i].first)
                    /\ \A j \in 1..Len(m_rowRefs) :
                          j > i => CompareKeys(output[i].row,
                                               Deref(Q, m_rowRefs[j].first), 1) <= 0
              /\ Len(output) = Min(TopOfQuery, Len(m_rowRefs))

\* C9 witness: the query k, v, sort[k, -v], top[2] has output two of its
\* three stored rows.
C9_Witness ==
    /\ cfg = 13
    /\ pc = "Done"
    /\ Len(m_rowRefs) = 3
    /\ Len(output) = 2
    /\ output[1].row # output[2].row

\* The n of the first[n] of the query.
FirstOfQuery ==
    CHOOSE n \in 0..2 :
        \E i \in 1..Len(Queries[cfg].columnSpecs) : Queries[cfg].columnSpecs[i] = First(n)

\* The row of an iteration was not evaluated: it is a new row or holds
\* what the iteration before left in it.
NotEvaluated(j) ==
    \/ trace[j].row = [i \in 1..GetRowSize(m_querySpec) |-> DefaultValue]
    \/ j > 1 /\ trace[j].row = trace[j - 1].row

\* C10: with first[n] the first n row iterations of the pass (one per
\* joined row, counted before the filters) are evaluated and no later
\* one; the attempt at iteration n + 1 and every later one sets
\* ParseStopped without evaluating, storing or outputting, and ParseStopped
\* stays set until the next Reset.
C10_FirstRows ==
    QueryUses({"OpFirst"}) =>
        /\ \A j \in 1..Len(trace) :
              /\ trace[j].passType = "MainPass"
              /\ trace[j].evaluated <=> j <= FirstOfQuery
              /\ trace[j].passed => trace[j].evaluated
              /\ ~trace[j].evaluated => NotEvaluated(j)
        /\ (Len(trace) > FirstOfQuery /\ context.passType = "MainPass") =>
              "ParseStopped" \in m_flags
        /\ Len(output) <= Len(SelectSeq(trace, Passed))
        /\ Len(KeptRows(m_seqRows, m_flags)) <= Len(SelectSeq(trace, Passed))
        /\ Len(m_distinctRows) <= Len(SelectSeq(trace, Passed))
        /\ Streaming(m_querySpec) => Len(output) = Len(SelectSeq(trace, Passed))

\* C10 witness: the join with first[1] has evaluated and output the
\* iteration of the first join row and stopped at the second.
C10_Witness ==
    /\ cfg = 18
    /\ Len(trace) >= 2
    /\ trace[1].passed
    /\ ~trace[2].evaluated
    /\ trace[2].joinTableRowIdx = 1
    /\ "ParseStopped" \in m_flags
    /\ Len(output) = 1

\* The row iterations a step has added to the trace.
NewIterations == SubSeq(trace', Len(trace) + 1, Len(trace'))

\* A step in which the next record of the input is committed and enters
\* JoinAndCommitRow, the parse not being stopped.
CommitsRow ==
    /\ pc = "Parse"
    /\ "ParseStopped" \notin m_flags
    /\ pos' = pos + 1

\* The bucket of the join rows of the record that is committed.
Bucket == m_indexedJoin[JoinIndex(Q, m_querySpec, input[pos + 1])]

HasBucket == JoinIndex(Q, m_querySpec, input[pos + 1]) \in DOMAIN m_indexedJoin

InnerJoin == "LeftSideOfJoin" \in m_querySpec.m_flags /\ ~m_querySpec.outer

\* The step has dropped the row: no iteration, nothing stored or output.
RowDropped ==
    /\ NewIterations = <<>>
    /\ output' = output
    /\ KeptRows(m_seqRows', m_flags') = KeptRows(m_seqRows, m_flags)
    /\ m_rowRefs' = m_rowRefs

\* The iterations of the step are at the rows 0, 1, ... of the bucket, in
\* that order, each with the values of the record and of its join row.
InBucketOrder ==
    \A i \in 1..Len(NewIterations) :
        /\ i <= Len(Bucket)
        /\ NewIterations[i].joinTableRowIdx = i - 1
        /\ ~NewIterations[i].emptyOuterJoin
        /\ NewIterations[i].parsedValue = input[pos + 1]
        /\ NewIterations[i].evaluated =>
              /\ NewIterations[i].row[2] = Bucket[i][1]
              /\ NewIterations[i].passed <=> FiltersTrue(NewIterations[i])

\* C11: on the left side of an inner join a committed row without a bucket
\* is dropped without an iteration; with a bucket the iterations run once
\* per row of the bucket, in bucket order, joinTableRowIdx being the index
\* of the row, up to the iteration at which first[n] stops the parse: that
\* one is not evaluated and is the last.
C11_InnerJoin ==
    [][(CommitsRow /\ InnerJoin) =>
          IF ~HasBucket THEN RowDropped
          ELSE /\ NewIterations # <<>>
               /\ InBucketOrder
               /\ \A i \in 1..Len(NewIterations) :
                     ~NewIterations[i].evaluated =>
                         /\ i = Len(NewIterations)
                         /\ "FirstNRowsSpecified" \in m_querySpec.m_flags
                         /\ "ParseStopped" \in m_flags'
               /\ Len(NewIterations) < Len(Bucket) =>
                     ~NewIterations[Len(NewIterations)].evaluated]_vars

\* C11 witness: the inner join has iterated the two rows of the bucket for
\* its first record, of which the first passed the equality and the second
\* did not.
C11_Witness ==
    /\ cfg = 17
    /\ pos = 1
    /\ Len(trace) = 2
    /\ trace[1].joinTableRowIdx = 0 /\ trace[1].passed
    /\ trace[2].joinTableRowIdx = 1 /\ ~trace[2].passed
    /\ Len(output) = 1

\* C11 as claimed: with a bucket the evaluate, filter and store steps run
\* for every row of the bucket.
C11_AsClaimed ==
    [][(CommitsRow /\ InnerJoin) =>
          IF ~HasBucket THEN RowDropped
          ELSE /\ Len(NewIterations) = Len(Bucket)
               /\ InBucketOrder
               /\ \A i \in 1..Len(NewIterations) : NewIterations[i].evaluated]_vars

OuterJoin == "LeftSideOfJoin" \in m_querySpec.m_flags /\ m_querySpec.outer

\* The join state of the context is the one ResetJoinTable leaves.
JoinTableReset ==
    /\ ~context.emptyOuterJoin
    /\ context.joinTable = <<>>
    /\ context.joinTableRowIdx = npos

\* The step has made the one iteration of the empty outer join: the joined
\* column w of the row is the empty value, the column k the one of the
\* record.
EmptyOuterIteration ==
    /\ Len(NewIterations) = 1
    /\ NewIterations[1].emptyOuterJoin
    /\ NewIterations[1].joinTableRowIdx = npos
    /\ NewIterations[1].parsedValue = input[pos + 1]
    /\ NewIterations[1].evaluated =>
          /\ NewIterations[1].row[1].sval = input[pos + 1].k
          /\ NewIterations[1].row[2].sval = <<>>

IsJoinEquality(expr) ==
    /\ expr.opcode = "OpWhere"
    /\ expr.m_args[1].opcode = "OpEQ"
    /\ \E i \in 1..2 : /\ expr.m_args[1].m_args[i].opcode = "OpColumnRef"
                       /\ expr.m_args[1].m_args[i].joined

\* The where[...] columns without an aggregate.
RowFilters ==
    {c \in 1..Len(m_querySpec.m_columns) :
        IsFilter(m_querySpec.m_columns[c]) /\ ~IsAggregate(m_querySpec.m_columns[c])}

\* Every filter of the iteration but those in `skipped` is true.
FiltersTrueExcept(e, skipped) ==
    \A c \in RowFilters \ skipped :
        Evaluate(m_querySpec.m_columns[c].expr, IterationContext(e), e.parsedValue, <<>>).bval

\* The iterations of an empty outer join that were evaluated.
EmptyOuterIterations == {i \in 1..Len(trace) : trace[i].emptyOuterJoin /\ trace[i].evaluated}

\* C13: JoinEqualityWhere is set on a where only if its predicate is an
\* equality with a joined column as an operand, and an iteration of an empty
\* outer join passes iff every where other than such an equality is true.
C13_AsClaimed ==
    /\ \A c \in RowFilters :
          JoinEqualityWhere(m_querySpec.m_columns[c].expr) =>
              IsJoinEquality(m_querySpec.m_columns[c].expr)
    /\ \A i \in EmptyOuterIterations :
          trace[i].passed <=>
              FiltersTrueExcept(trace[i],
                                {c \in RowFilters : IsJoinEquality(m_querySpec.m_columns[c].expr)})

\* The consequence C13 draws, alone.
C13_OtherFiltersEvaluated ==
    \A i \in EmptyOuterIterations :
        trace[i].passed <=>
            FiltersTrueExcept(trace[i],
                              {c \in RowFilters : IsJoinEquality(m_querySpec.m_columns[c].expr)})

\* What the code does: every where without an aggregate is skipped in an
\* iteration of an empty outer join, which therefore always passes.
C13_EveryFilterSkipped ==
    \A i \in EmptyOuterIterations : trace[i].passed

\* An empty outer join has output a row whose where[v > 0] is false.
C13_RowNotDropped ==
    /\ cfg = 27
    /\ Len(output) = 1
    /\ ~FiltersTrueExcept(trace[1], {4})

\* The main pass of a query with a stored-values pass has ended because
\* Parse observed Control-C (first and top set ParseStopped as well and are
\* left out): DoPasses is at the head of its loop, before the
\* stored-values pass.
MainPassStoppedByControlC ==
    /\ pc = "DoPasses"
    /\ controlC
    /\ "ParseStopped" \in m_flags
    /\ ~QueryUses({"OpFirst", "OpTop"})
    /\ passIdx <= Len(passes)
    /\ passes[passIdx] = "StoredValuesPass"
    /\ passLog # <<>>
    /\ passLog[Len(passLog)] = <<"Parse", "MainPass">>

\* C14: when Control-C was observed in the main pass of a query with a
\* stored-values pass, DoPasses goes on to the stored-values pass, which
\* outputs the rows stored so far.
C14_AsClaimed ==
    [][MainPassStoppedByControlC =>
          /\ pc' = "OutputStoredRows"
          /\ passLog' = Append(passLog, <<"Reset", "StoredValuesPass">>)]_vars

\* What DoPasses does: it breaks out of its loop, nothing is output.
C14_StoredPassSkipped ==
    [][MainPassStoppedByControlC => (pc' = "Done" /\ output' = output)]_vars

\* The run of k, v, sort[real(v)] has ended after Control-C in the main
\* pass with two rows stored and none output.
C14_RowsNotOutput ==
    /\ cfg = 11
    /\ pc = "Done"
    /\ controlC
    /\ passLog # <<>>
    /\ passLog[Len(passLog)] = <<"Parse", "MainPass">>
    /\ "ParseStopped" \in m_flags
    /\ Len(m_seqRows) = 2
    /\ output = <<>>

\* The row lines of the calls of the row callback: the row of each call
\* as often as its repeat count tells.
RECURSIVE RowLines(_)
RowLines(calls) ==
    IF calls = <<>> THEN <<>>
    ELSE RowLines(SubSeq(calls, 1, Len(calls) - 1))
         \o [i \in 1..calls[Len(calls)].count |->
                RowLine(m_querySpec, calls[Len(calls)].row)]

\* C15: the output of a run (outheader is true in every query) is the
\* header line followed by one line per emitted row, whatever the number
\* of emitted rows.
C15_AsClaimed ==
    pc = "Done" => m_output = <<HeaderLine(m_querySpec)>> \o RowLines(output)

\* What PrintRow does: the header is written in front of the first row
\* line, exactly once, and not at all in a run that emits no row.
C15_HeaderWithFirstRow ==
    m_output = IF RowLines(output) = <<>> THEN <<>>
               ELSE <<HeaderLine(m_querySpec)>> \o RowLines(output)

\* A run of k, v, where[v > 0] over two records has ended without a row
\* and without a header.
C15_NoHeader ==
    /\ cfg = 1
    /\ pc = "Done"
    /\ ~controlC
    /\ Len(input) = 2
    /\ m_output = <<>>

(***************************************************************************)
(* The checks of ParseColumnSpecs.                                         *)
(***************************************************************************)

\* ParseColumnSpecs has been called on the column specs of a command line.
Parsed == parseResult.outcome # "NotParsed" /\ columnArgs # <<>>

\* The names the columns of the column specs carry: the result names of a
\* pivot, the explicit name, or the text of the column spec.
RECURSIVE DeclaredNames(_)
DeclaredNames(columnSpecs) ==
    IF columnSpecs = <<>> THEN <<>>
    ELSE DeclaredNames(SubSeq(columnSpecs, 1, Len(columnSpecs) - 1))
         \o (IF columnSpecs[Len(columnSpecs)].names = <<>>
             THEN <<columnSpecs[Len(columnSpecs)].text>>
             ELSE columnSpecs[Len(columnSpecs)].names)

SharesName(names) ==
    \E i, j \in 1..Len(names) : i < j /\ ToLower(names[i]) = ToLower(names[j])

\* C16, as the spec has it: no two columns of the final column list share a
\* name compared without case, and column specs that give two columns one
\* name, be it explicit, the default or a result name of a pivot, are
\* rejected with an error.
C16_AsClaimed ==
    Parsed =>
        /\ parseResult.outcome = "Accepted" => ~SharesName(parseResult.names)
        /\ SharesName(DeclaredNames(columnArgs)) => parseResult.outcome = "Error"

\* The nodes right below a node: its arguments, and for a column reference
\* the root of the column of that name.
Below(m_columns, id) ==
    IF Node(m_columns, id).opcode = "OpColumnRef"
    THEN (IF GetColumn(m_columns, Node(m_columns, id).ref) = 0 THEN {}
          ELSE {<<GetColumn(m_columns, Node(m_columns, id).ref)>>})
    ELSE {Append(id, n) : n \in 1..Len(Node(m_columns, id).m_args)}

RECURSIVE Descendants(_, _)
Descendants(m_columns, S) ==
    IF UNION {Below(m_columns, id) : id \in S} \subseteq S THEN S
    ELSE Descendants(m_columns, S \cup UNION {Below(m_columns, id) : id \in S})

\* The columns as the second pass of ParseColumnSpecs leaves them, when it
\* raises no error.
ParsedColumns(st) == IF Stopped(st) THEN <<>> ELSE st.m_columns

\* The column references of the columns contain a cycle.
CyclicColumnRefs(m_columns) ==
    \E c \in 1..Len(m_columns) :
        <<c>> \in Descendants(m_columns, Below(m_columns, <<c>>))

\* C17, as the spec has it: on column specs whose column references contain
\* a cycle ParseColumnSpecs terminates and reports a parse error, and no
\* such query is accepted.
C17_AsClaimed ==
    Parsed /\ FirstPassError(columnArgs) = ""
           /\ CyclicColumnRefs(ParsedColumns(SecondPass(columnArgs, Len(columnArgs))))
        => parseResult.outcome = "Error"

\* An aggregate has an aggregate below it, through column references too.
NestedAggregates(m_columns) ==
    \E c \in 1..Len(m_columns) :
        \E path \in {Paths(m_columns[c].expr)[i] : i \in 1..Len(Paths(m_columns[c].expr))} :
            /\ Node(m_columns, <<c>> \o path).opcode \in AggregateOps
            /\ \E d \in Descendants(m_columns, Below(m_columns, <<c>> \o path)) :
                    Node(m_columns, d).opcode \in AggregateOps

\* C18, as the spec has it: no accepted query has an aggregate with an
\* aggregate in the subtree of its argument, through a column reference
\* too.
C18_AsClaimed ==
    Parsed /\ FirstPassError(columnArgs) = ""
           /\ NestedAggregates(ParsedColumns(SecondPass(columnArgs, Len(columnArgs))))
        => parseResult.outcome # "Accepted"

\* Without a cycle in the column references no query with nested aggregates
\* is accepted.
NestedAggregatesWithoutCycle ==
    Parsed /\ FirstPassError(columnArgs) = ""
           /\ NestedAggregates(ParsedColumns(SecondPass(columnArgs, Len(columnArgs))))
           /\ ~CyclicColumnRefs(ParsedColumns(SecondPass(columnArgs, Len(columnArgs))))
        => parseResult.outcome # "Accepted"

(***************************************************************************)
(* The paths of the query the input has no tag for.                        *)
(***************************************************************************)

\* The start tags among the first n tags of the document that carry the tag
\* of the path.
StartTagsOf(pathSpec, n) ==
    {i \in 1..n : doc[i].kind = "start" /\ ToLower(doc[i].label) = pathSpec}

\* XmlDriver::Parse ends, with its return or with an error.
ParseEnds == pc = "Parse" /\ pc' # "Parse"

\* C19: when a pass over the input ends, the error of a path not matched is
\* raised iff the tags scanned in the pass have no start tag for some path
\* of the query.
C19_PathNotMatched ==
    [][ParseEnds =>
          (pc' = "Error" <=>
              \E pathSpec \in InputPathRefs(Queries[cfg].columnSpecs) :
                  StartTagsOf(pathSpec, scanPos') = {})]_vars

\* C19 witness: a pass has ended with the error after the start match of
\* one path of two.
C19_Witness ==
    /\ pc = "Error"
    /\ \E i, j \in 1..Len(m_paths) :
          /\ "ExistsInInput" \in m_paths[i].m_flags
          /\ "ExistsInInput" \notin m_paths[j].m_flags

\* A pass has ended without the error, every path having matched.
C19_AllMatched ==
    /\ pc = "DoPasses"
    /\ passLog # <<>>
    /\ passLog[Len(passLog)][1] = "Parse"
    /\ Len(m_paths) = 2

(***************************************************************************)
(* Convert applied twice.                                                  *)
(***************************************************************************)

\* C20, as the spec has it: Convert(Convert(v, t), t) equals Convert(v, t)
\* under the equality of XmlValue, for every value v, the strings that are
\* no dates among them, and every type t.
C20_AsClaimed ==
    Len(converted) >= 2 => Compare(converted[2], converted[1]) = 0

\* The second call of Convert returns the value it was given: the type, the
\* string and the member of the union are those of the first result.
ConvertReturnsSame ==
    Len(converted) >= 2 => converted[2] = converted[1]

(***************************************************************************)
(* The order of the values.                                                *)
(***************************************************************************)
Sign(n) == IF n < 0 THEN 0 - 1 ELSE IF n > 0 THEN 1 ELSE 0

\* Compare is reflexive, antisymmetric in its sign and transitive on the
\* three values, and orders two values of different types by their types.
TotalOrder(values, cmp) ==
    /\ \A i \in 1..3 : cmp[i][i] = 0
    /\ \A i, j \in 1..3 : Sign(cmp[i][j]) = 0 - Sign(cmp[j][i])
    /\ \A i, j, k \in 1..3 : cmp[i][j] <= 0 /\ cmp[j][k] <= 0 => cmp[i][k] <= 0
    /\ \A i, j \in 1..3 :
          values[i].type # values[j].type =>
              (cmp[i][j] < 0 <=> TypeRank(values[i].type) < TypeRank(values[j].type))

\* C21, as the spec has it: Compare is a total order on the values, the
\* date-times that carry the error flag among them: Compare(a, a) = 0, the
\* sign of Compare(a, b) is the opposite of the sign of Compare(b, a),
\* Compare is transitive, and values of different types are ordered by the
\* positions of their types.
C21_AsClaimed ==
    compared # <<>> => TotalOrder(compareArgs, compared)

\* A value Compare does not find equal to itself: a real that is no number,
\* or a date-time with the error flag.
Unordered(v) ==
    \/ v.type = "Real" /\ v.rval.cls = "nan"
    \/ v.type = "DateTime" /\ v.dtval.error = 1

\* Compare is a total order on the values that are numbers and dates.
CompareOrdersTheRest ==
    compared # <<>> /\ (\A i \in 1..3 : ~Unordered(compareArgs[i]))
        => TotalOrder(compareArgs, compared)

(***************************************************************************)
(* The matcher.                                                            *)
(***************************************************************************)

\* C22, as the spec has it: after every tag, a path is counted as matched
\* iff its start pattern has matched since the path was last cleared and
\* either its end tag has matched since or the path is NoData.
C22_AsClaimed ==
    \A i \in 1..Len(matchArgs) :
        CountedAsMatched(m_paths[i])
            <=> /\ i \in matchLog.started
                /\ i \in matchLog.ended \/ "NoData" \in m_paths[i].m_flags

\* On the queries without NoData and Sync paths the paths are counted as
\* the spec has it.
CountedAsMatchedPlain ==
    (\A i \in 1..Len(matchArgs) : matchArgs[i].flags = {}) => C22_AsClaimed

\* A start tag has been given to the matcher in the step.
StartTagStep == matchLog'.n = matchLog.n + 1 /\ matchLog'.kind = "start"

\* The match orders the paths hold.
HeldOrders(paths) ==
    {paths[i].m_matchOrder : i \in 1..Len(paths)} \ {0 - 1}

\* No two paths hold the same order, and the orders held are 0, 1, 2, ...
OrdersInSequence(paths) ==
    /\ \A i, j \in 1..Len(paths) :
          i # j /\ paths[i].m_matchOrder # 0 - 1
              => paths[i].m_matchOrder # paths[j].m_matchOrder
    /\ HeldOrders(paths) = 0..(Cardinality(HeldOrders(paths)) - 1)

\* A path that receives its order in the step receives one above the
\* orders of the paths that held theirs before.
FirstMatchesOrdered ==
    \A i \in matchLog'.startMatched, j \in 1..Len(m_paths) :
        /\ m_paths[i].m_matchOrder = 0 - 1
        /\ m_paths'[i].m_matchOrder # 0 - 1
        /\ m_paths[j].m_matchOrder # 0 - 1
        /\ m_paths'[j].m_matchOrder # 0 - 1
        => m_paths'[i].m_matchOrder > m_paths'[j].m_matchOrder

\* ClearValues(true) has left the path.
IsCleared(path) ==
    /\ path.m_str = <<>>
    /\ ~path.Matched
    /\ path.m_matchOrder = 0 - 1
    /\ path.m_matchState = "SearchingForStartTag"

\* The path at j keeps its order and stays bound in the step, and its
\* value when its start tag is not the tag of the step.
KeepsValue(j) ==
    /\ m_paths'[j].m_matchOrder = m_paths[j].m_matchOrder
    /\ m_paths'[j].Matched
    /\ (j \notin matchLog'.startMatched
           => IsPrefix(m_paths[j].m_str, m_paths'[j].m_str))

\* When a path that holds the order k matches its start tag again, the
\* paths of the orders above k are cleared and the paths of the orders up
\* to k keep their values.
RematchRollsBack ==
    \A i \in matchLog'.startMatched :
        m_paths[i].m_matchOrder # 0 - 1 =>
            \A j \in 1..Len(m_paths) :
                /\ (m_paths[j].m_matchOrder > m_paths[i].m_matchOrder
                       => IsCleared(m_paths'[j]))
                /\ (m_paths[j].m_matchOrder # 0 - 1
                    /\ m_paths[j].m_matchOrder <= m_paths[i].m_matchOrder
                       => KeepsValue(j))

\* C23, as the spec has it: the paths receive the match orders 0, 1, 2, ...
\* in the order of their first start match and no two paths hold the same
\* order; when a path that holds the order k matches its start tag again,
\* then after that tag every path of an order above k has been cleared
\* (empty value, Matched unset, order unassigned, SearchingForStartTag) and
\* every path of an order up to k keeps its bound value.
C23_AsClaimed ==
    [][StartTagStep =>
          /\ OrdersInSequence(m_paths')
          /\ FirstMatchesOrdered
          /\ RematchRollsBack]_vars

\* The orders are as the spec has them, and so is the rollback at a tag
\* that is the start tag of one path only.
OrdersAndRollbackOfOnePath ==
    [][StartTagStep =>
          /\ OrdersInSequence(m_paths')
          /\ FirstMatchesOrdered
          /\ (Cardinality(matchLog'.startMatched) = 1 => RematchRollsBack)]_vars

\* A tag has been given to the matcher.
AfterTag == matchArgs # <<>> /\ matchLog.n > 0

\* CommitMatch has left the paths: every path searches for its start tag.
AllSearchingForStartTag ==
    \A i \in 1..Len(m_paths) : m_paths[i].m_matchState = "SearchingForStartTag"

AllCounted ==
    \E p \in 1..(Len(matchArgs) + 1) :
        /\ p = Len(matchArgs) + 1 \/ p \in matchLog.syncMatched
        /\ \A i \in 1..(p - 1) : i \in matchLog.counted

C24_NoEndMatch ==
    /\ AfterTag
    /\ Len(matchArgs) = 2
    /\ matchLog.kind = "end"
    /\ matchLog.endMatched = {}
    /\ matchLog.counted = {1, 2}
    /\ matchLog.commits = 0

C25_AsClaimed ==
    AfterTag =>
        \A i \in matchLog.endMatched :
            "Sync" \in m_paths[i].m_flags => matchLog.commits = 1

\* The row is committed when the Sync path is the first of the list.
SyncFirstCommits ==
    AfterTag /\ 1 \in matchLog.endMatched /\ "Sync" \in m_paths[1].m_flags
        => matchLog.commits = 1

\* The Sync path is the first of the list and has become matched with the
\* other path unmatched.
SyncFirstAlone ==
    /\ AfterTag
    /\ Len(matchArgs) = 2
    /\ 1 \in matchLog.endMatched
    /\ "Sync" \in m_paths[1].m_flags
    /\ 2 \notin matchLog.started

\* The counters of the tags of a path.
TagCounters(path) ==
    [i \in 1..Len(path.m_tagList) |-> path.m_tagList[i].m_relativeParseDepth]

\* C26, as the spec has it: no counter of a tag and no mismatch depth is
\* ever negative, and when a well-nested sequence of tags, elements of the
\* same name inside each other, rollbacks and commits included, has come
\* back to the depth of the Reset, the counter of every tag, the mismatch
\* depth of every path and currParseDepth are what they were after the
\* Reset.
C26_AsClaimed ==
    matchArgs # <<>> =>
        /\ \A i \in 1..Len(m_paths) :
              /\ m_paths[i].m_mismatchDepth >= 0
              /\ \A t \in 1..Len(m_paths[i].m_tagList) : TagCounters(m_paths[i])[t] >= 0
        /\ openTags = <<>> =>
              /\ m_rowState.currParseDepth = NewMatcher(matchArgs).m_rowState.currParseDepth
              /\ \A i \in 1..Len(m_paths) :
                    /\ m_paths[i].m_mismatchDepth = 0
                    /\ TagCounters(m_paths[i])
                           = TagCounters(NewMatcher(matchArgs).m_paths[i])

\* No counter is negative, and currParseDepth follows the depth.
CountersNeverNegative ==
    matchArgs # <<>> =>
        /\ m_rowState.currParseDepth = Len(openTags) + 1
        /\ \A i \in 1..Len(m_paths) :
              /\ m_paths[i].m_mismatchDepth >= 0
              /\ \A t \in 1..Len(m_paths[i].m_tagList) : TagCounters(m_paths[i])[t] >= 0

\* The columns of the list that have a value in a row.
ValueColumns(columns) ==
    {i \in 1..Len(columns) : IsOutput(columns[i]) \/ IsAggregate(columns[i])}

\* The index of every column is its position, the Output or Aggregate
\* columns have the valueIdx 0, 1, 2, ... in list order and the others
\* none, and GetNumValueColumns() is the number of the former.
ColumnsIndexed(e) ==
    /\ \A i \in 1..Len(e.m_columns) : e.m_columns[i].index = i - 1
    /\ \A i \in 1..Len(e.m_columns) :
          e.m_columns[i].valueIdx =
              IF i \in ValueColumns(e.m_columns)
              THEN Cardinality({j \in ValueColumns(e.m_columns) : j < i})
              ELSE npos
    /\ e.m_numValueColumns = Cardinality(ValueColumns(e.m_columns))

\* m_colMap has exactly one entry per listed column: the entry of the
\* lower-case name of the column, which holds the column.
OneEntryPerColumn(e) ==
    /\ Cardinality(e.m_colMap) = Len(e.m_columns)
    /\ \A i \in 1..Len(e.m_columns) :
          [key |-> ToLower(e.m_columns[i].name), id |-> e.m_columns[i].id] \in e.m_colMap

\* C27, as the spec has it: after any sequence of InsertColumn and
\* DeleteColumn calls, the pivot insertions at the spread index and the
\* pivot rollbacks included, every column of the list has the index of its
\* position, the Output or Aggregate columns have the valueIdx 0, 1, 2, ...
\* in list order and the others none, GetNumValueColumns() is the number of
\* Output or Aggregate columns, and the name map has exactly one entry per
\* listed column.
C27_AsClaimed ==
    Editing => ColumnsIndexed(columnEditor) /\ OneEntryPerColumn(columnEditor)

\* The indices are as C27 has them in every state.
C27_IndicesHold == Editing => ColumnsIndexed(columnEditor)

\* The names BindColumns inserts repeat no name, among themselves or of a
\* column of the column specs.
DistinctPivotNames ==
    LET names == SelectSeq(editArgs.pivotNames, LAMBDA name : name # "...")
    IN  /\ \A i, j \in 1..Len(names) : i < j => ToLower(names[i]) # ToLower(names[j])
        /\ \A i \in 1..Len(names), j \in 1..Len(editArgs.columnSpecs) :
              ToLower(names[i]) # ToLower(editArgs.columnSpecs[j].name)

\* The name map is as C27 has it when BindColumns repeats no name.
C27_MapHoldsOnDistinctNames ==
    Editing /\ DistinctPivotNames => OneEntryPerColumn(columnEditor)

\* A rollback of the pivoter has deleted a column inserted at the spread
\* index, between other columns.
C27_RolledBack ==
    /\ Editing
    /\ DistinctPivotNames
    /\ pivoter.pc = "Parse"
    /\ pivoter.newColumns = <<>>
    /\ columnEditor.made > Len(columnEditor.m_columns)
    /\ pivoter.m_spreadIdx \in 1..(Len(columnEditor.m_columns) - 1)
    /\ \E i \in 1..Len(columnEditor.m_columns) :
          "PivotResult" \in columnEditor.m_columns[i].flags /\ i <= pivoter.m_spreadIdx

\* DeleteColumn finds the entry of every column it deletes.
C27_NoBadErase == ~columnEditor.crashed

\* The column specs are those of a join and ParseColumnSpecs has accepted
\* them.
JoinParsed ==
    /\ columnArgs # <<>>
    /\ columnArgs[1] = JoinColumnSpec
    /\ parseResult.outcome = "Accepted"

\* The nodes of an expression, as the paths to them.
NodesOf(expr) == {Paths(expr)[i] : i \in 1..Len(Paths(expr))}

\* The subtree has a reference to a path of the input, or to a joined path.
HasInputPathRef(expr) ==
    \E path \in NodesOf(expr) :
        NodeAt(expr, path).opcode = "OpPathRef" /\ ~NodeAt(expr, path).joined

HasJoinPathRef(expr) ==
    \E path \in NodesOf(expr) :
        NodeAt(expr, path).opcode = "OpPathRef" /\ NodeAt(expr, path).joined

\* No subtree of the query refers to both an input path and a joined path,
\* and no aggregate of the query encloses a reference to a joined path.
NoMixedSubtree(exprs) ==
    \A c \in 1..Len(exprs) : \A path \in NodesOf(exprs[c]) :
        /\ ~(HasInputPathRef(NodeAt(exprs[c], path)) /\ HasJoinPathRef(NodeAt(exprs[c], path)))
        /\ NodeAt(exprs[c], path).opcode \in AggregateOps
              => ~HasJoinPathRef(NodeAt(exprs[c], path))

\* The references to the column n of the join columns in an expression.
JoinColumnRefs(expr, n) ==
    Cardinality({path \in NodesOf(expr) :
                    /\ NodeAt(expr, path).opcode = "OpColumnRef"
                    /\ NodeAt(expr, path).joined
                    /\ NodeAt(expr, path).index = n
                    /\ NodeAt(expr, path).ref = JoinColumnName(n)})

RECURSIVE SumOver(_, _)
SumOver(counts, n) == IF n = 0 THEN 0 ELSE SumOver(counts, n - 1) + counts[n]

\* The expression with every reference to a join column replaced by the
\* expression of that column.
RECURSIVE Unhoisted(_, _)
Unhoisted(expr, joinColumns) ==
    IF expr.opcode = "OpColumnRef" /\ expr.joined
    THEN Unhoisted(joinColumns[expr.index].expr, joinColumns)
    ELSE [expr EXCEPT !.m_args = [i \in 1..Len(expr.m_args) |->
                                     Unhoisted(expr.m_args[i], joinColumns)]]

\* The columns as PostProcessRefs leaves them, before the joined paths are
\* hoisted.
BeforeHoisting(columnSpecs) ==
    PostProcessRefs(SecondPass(columnSpecs, Len(columnSpecs))).m_columns

\* Every hoisted subtree is replaced where it was by one reference to its
\* column: each join column is referred to once, and putting the
\* expressions of the join columns back gives the columns as they were.
HoistedInPlace ==
    /\ \A n \in 1..Len(parseResult.joinColumns) :
          /\ parseResult.joinColumns[n].name = JoinColumnName(n)
          /\ SumOver([c \in 1..Len(parseResult.exprs) |->
                         JoinColumnRefs(parseResult.exprs[c], n)],
                     Len(parseResult.exprs))
               + SumOver([m \in 1..Len(parseResult.joinColumns) |->
                             JoinColumnRefs(parseResult.joinColumns[m].expr, n)],
                         Len(parseResult.joinColumns)) = 1
    /\ \A c \in 1..Len(parseResult.exprs) :
          Unhoisted(parseResult.exprs[c], parseResult.joinColumns)
              = BeforeHoisting(columnArgs)[c].expr

\* No join column has a reference to a path of the input in its expression.
NoInputPathHoisted ==
    \A n \in 1..Len(parseResult.joinColumns) :
        ~HasInputPathRef(parseResult.joinColumns[n].expr)

DistinctJoinColumnNames ==
    \A m, n \in 1..Len(parseResult.joinColumns) :
        m # n => parseResult.joinColumns[m].name # parseResult.joinColumns[n].name

\* C28, as the spec has it: after ParseColumnSpecs on a join query no
\* subtree of the main query refers to both an input path and a joined
\* path, no aggregate of the main query encloses a reference to a joined
\* path, every hoisted subtree is replaced where it was by exactly one
\* reference to a column __joincolumn_N, the expression of no hoisted
\* column has a reference to an input path, and the names of the hoisted
\* columns are pairwise distinct.
C28_AsClaimed ==
    JoinParsed =>
        /\ NoMixedSubtree(parseResult.exprs)
        /\ HoistedInPlace
        /\ NoInputPathHoisted
        /\ DistinctJoinColumnNames

\* All of C28 but the hoisted columns being without input paths holds.
C28_HoistedInPlace ==
    JoinParsed =>
        /\ NoMixedSubtree(parseResult.exprs)
        /\ HoistedInPlace
        /\ DistinctJoinColumnNames

\* A sort whose arguments are joined paths and aggregates, none a function
\* of an input path outside an aggregate.
SortOfJoinAndAggregate(columnSpec) ==
    /\ columnSpec.expr.opcode = "OpSort"
    /\ \E i \in 1..Len(columnSpec.expr.m_args) :
          SubtreeContainsAggregate(columnSpec.expr.m_args[i])

\* The hoisted columns are without input paths when the query has no such
\* sort.
C28_NoInputPathWithoutSort ==
    JoinParsed /\ (\A i \in 1..Len(columnArgs) : ~SortOfJoinAndAggregate(columnArgs[i]))
        => NoInputPathHoisted

\* Two columns were hoisted, one out of an aggregate.
C28_Hoisted ==
    /\ JoinParsed
    /\ Len(parseResult.joinColumns) = 2
    /\ \E c \in 1..Len(parseResult.exprs) :
          /\ parseResult.exprs[c].opcode = "OpSum"
          /\ parseResult.exprs[c].m_args[1].opcode = "OpColumnRef"
          /\ parseResult.exprs[c].m_args[1].joined

\* The main pass of a query with top[n] and no sort has counted more than
\* n output rows.
TopExceeded ==
    /\ QueryUses({"OpTop"})
    /\ ~QueryUses({"OpSort"})
    /\ context.passType = "MainPass"
    /\ context.numRowsOutput > TopOfQuery

\* C29, as the spec has it: in the main pass of every query with top[n] and
\* no sort, streaming, distinct or aggregated, ParseStopped is set as soon
\* as the counter of output rows exceeds n, so that the reading of the
\* input stops at the next end tag.
C29_AsClaimed == TopExceeded => "ParseStopped" \in m_flags

\* ParseStopped is set as soon as the counter exceeds n when the query
\* streams its rows.
C29_StreamingStops ==
    TopExceeded /\ Streaming(m_querySpec) => "ParseStopped" \in m_flags

\* A query that stores its rows has counted more than n output rows and
\* reads on.
C29_StoredReadsOn ==
    /\ TopExceeded
    /\ ~Streaming(m_querySpec)
    /\ "ParseStopped" \notin m_flags
    /\ pc = "Parse"
    /\ pos < Len(input)

\* The step is the Reset of DoPasses for its next pass.
ResetStep ==
    /\ pc = "DoPasses"
    /\ passIdx <= Len(passes)
    /\ pc' # "Done"
    /\ passLog' = Append(passLog, <<"Reset", passes[passIdx]>>)

\* What the query has stored: the rows but the last one when it is marked
\* for recycling, which is the working row of a query that keeps its rows
\* in the distinct map, the row references, the aggregators and the
\* distinct map.
Stored == <<RemoveRecycledRow(Q).m_seqRows, m_rowRefs, m_aggregates, m_distinctRows>>

Pivoted == pivoter'.partitions = pivoter.partitions + 1

\* The rows of m_seqRows before the partition that is being pivoted.
RowsBeforePartition ==
    SubSeq(pivoter.m_seqRows, 1, Len(pivoter.m_seqRows) - Len(pivoter.m_names))

SlotsFit(row) ==
    /\ Len(row) = EditRowSize(columnEditor, editArgs.columnSpecs)
    /\ \A i \in 1..Len(columnEditor.m_columns) :
          LET column == columnEditor.m_columns[i]
          IN  column.valueIdx # npos =>
                 /\ column.valueIdx + 1 <= Len(row)
                 /\ row[column.valueIdx + 1] \in {column.id, 0}

\* The column set of a non-jagged pivot from partition to partition.
ColumnSetFixed ==
    /\ (Pivoted /\ pivoter'.last = "Accepted") => ~pivoter'.m_collectingColumns
    /\ (Pivoted /\ pivoter'.last = "Rejected") =>
          pivoter'.m_collectingColumns = pivoter.m_collectingColumns
    /\ (Pivoted /\ ~pivoter.m_collectingColumns /\ Editing') =>
          columnEditor'.m_columns = columnEditor.m_columns

\* C32: for a non-jagged pivot, after the first partition whose pivoted row
\* is accepted no later partition adds a column, every partition rejected
\* before that leaves column collection enabled, and after every
\* CommitPivot each stored row has one slot per value column, at the
\* position given by that column's valueIdx.
C32_AsClaimed ==
    /\ [][~editArgs.jagged => ColumnSetFixed]_vars
    /\ []((~editArgs.jagged /\ Editing /\ pivoter.last = "Accepted") =>
             \A i \in 1..Len(pivoter.m_seqRows) : SlotsFit(pivoter.m_seqRows[i]))

\* The part of C32 that holds: the column set is fixed by the first
\* accepted partition and by nothing before it.
C32_ColumnSetFixed == [][~editArgs.jagged => ColumnSetFixed]_vars

\* A second partition of new names was pivoted after an accepted one.
C32_Ignored ==
    /\ Editing
    /\ ~editArgs.jagged
    /\ pivoter.partitions = 2
    /\ ~pivoter.m_collectingColumns
    /\ pivoter.m_spreadIdx # npos
    /\ pivoter.discovered = 0

(***************************************************************************)
(* Claims about the expression parser (SpecInfix).                         *)
(***************************************************************************)
\* The tree operator precedence gives the operands lo..hi of a chain: the
\* chain splits at its loosest operator, the one of the greatest opcode,
\* and at the last of them when there are several.
RECURSIVE PrecedenceTree(_, _, _)
PrecedenceTree(ops, lo, hi) ==
    IF lo = hi THEN <<"ref", lo>>
    ELSE LET loosest == CHOOSE k \in lo..(hi - 1) :
                            \A j \in lo..(hi - 1) :
                               \/ OpcodeOf(ops[j]) < OpcodeOf(ops[k])
                               \/ OpcodeOf(ops[j]) = OpcodeOf(ops[k]) /\ j <= k
         IN  <<ops[loosest], PrecedenceTree(ops, lo, loosest),
               PrecedenceTree(ops, loosest + 1, hi)>>

\* C33: for every expression built from operands and binary infix
\* operators, in chains of up to four operators, the AST of
\* ParseExpr/ParseInfixOperator is the tree determined by operator
\* precedence (a lower opcode binds tighter), operators of equal precedence
\* grouping from left to right.
C33_AsClaimed ==
    exprResult # <<>> => exprResult = PrecedenceTree(exprArgs, 1, Len(exprArgs) + 1)

\* The part of C33 that holds: chains of up to two operators parse to the
\* tree of operator precedence.
C33_TwoOperators ==
    (exprResult # <<>> /\ Len(exprArgs) <= 2) =>
        exprResult = PrecedenceTree(exprArgs, 1, Len(exprArgs) + 1)

\* a - b - c has been parsed as (a - b) - c.
C33_Rotated ==
    /\ exprArgs = <<"-", "-">>
    /\ exprResult = <<"-", <<"-", <<"ref", 1>>, <<"ref", 2>>>>, <<"ref", 3>>>>

(***************************************************************************)
(* Claims about the aggregator (SpecAggr).                                 *)
(***************************************************************************)
\* The values the aggregator has ingested.
Ingested == SubSeq(exprArgs, 1, exprResult.ingested)

RECURSIVE SumOf(_)
SumOf(values) == IF values = <<>> THEN Fin(0) ELSE RealAdd(SumOf(Tail(values)), Head(values))

ValuesOf(values) == {values[i] : i \in 1..Len(values)}

Smallest(values) ==
    CHOOSE x \in ValuesOf(values) : \A y \in ValuesOf(values) : ~RealLess(y, x)

Largest(values) ==
    CHOOSE x \in ValuesOf(values) : \A y \in ValuesOf(values) : ~RealLess(x, y)

\* C34: after ingesting any non-empty sequence of values x1..xn, of either
\* sign, GetAggregate returns n for count, the sum of the xi for sum, the
\* smallest xi for min and the largest xi for max.
C34_AsClaimed ==
    exprResult.ingested > 0 =>
        /\ GetAggregate(exprResult.aggr, "Count") = RealValue(Fin(exprResult.ingested))
        /\ GetAggregate(exprResult.aggr, "Sum") = RealValue(SumOf(Ingested))
        /\ GetAggregate(exprResult.aggr, "Min") = RealValue(Smallest(Ingested))
        /\ GetAggregate(exprResult.aggr, "Max") = RealValue(Largest(Ingested))

\* The part of C34 that holds: count, sum and min are those of the values,
\* and max is when one of the values is above 0.
C34_ExceptMaxBelowZero ==
    exprResult.ingested > 0 =>
        /\ GetAggregate(exprResult.aggr, "Count") = RealValue(Fin(exprResult.ingested))
        /\ GetAggregate(exprResult.aggr, "Sum") = RealValue(SumOf(Ingested))
        /\ GetAggregate(exprResult.aggr, "Min") = RealValue(Smallest(Ingested))
        /\ (\E i \in 1..exprResult.ingested : RealLess(Fin(0), exprArgs[i])) =>
              GetAggregate(exprResult.aggr, "Max") = RealValue(Largest(Ingested))

\* Values of both signs have been ingested.
C34_BothSigns ==
    /\ exprResult.ingested = MaxIngested
    /\ \E i \in 1..exprResult.ingested : RealLess(exprArgs[i], Fin(0))
    /\ \E i \in 1..exprResult.ingested : RealLess(Fin(0), exprArgs[i])

(***************************************************************************)
(* Claims about the stored rows of a distinct or aggregated query (Spec).  *)
(***************************************************************************)
\* The distinct map, the row references and the aggregators of a query
\* state go by index: the same sizes, and the index recorded for a key of
\* the map is that of the row reference that points to the key.
Parallel(s, querySpec) ==
    /\ Len(s.m_distinctRows) = Len(s.m_rowRefs)
    /\ Aggregated(querySpec) => Len(s.m_aggregates) = Len(s.m_rowRefs)
    /\ \A i \in 1..Len(s.m_distinctRows) :
          /\ s.m_distinctRows[i].value \in 0..(Len(s.m_rowRefs) - 1)
          /\ s.m_rowRefs[s.m_distinctRows[i].value + 1].first
                = [store |-> "distinct", at |-> i]
          /\ Deref(s, s.m_rowRefs[s.m_distinctRows[i].value + 1].first)
                = s.m_distinctRows[i].key

\* XmlQuery::OutputStoredRows has run.
StoredRowsOutput ==
    \E i \in 1..Len(passLog) : passLog[i][1] = "OutputStoredRows"

\* C35: in a distinct or aggregated query, after every StoreRow call the
\* distinct map, the row-reference vector and (when aggregated) the
\* aggregator vector have the same size, the index recorded in the distinct
\* map for a row is a valid index of the other two and designates that same
\* row, and this still holds when the aggregates are finalized in the
\* stored-values pass, before the row references are sorted.
C35_Parallel ==
    /\ []((Distinct(m_querySpec) /\ ~StoredRowsOutput) => Parallel(Q, m_querySpec))
    /\ [][(Distinct(m_querySpec) /\ pc = "OutputStoredRows" /\ pc' # pc) =>
             Parallel(FinalizeAggregates(ParserReset(Q, m_querySpec, "StoredValuesPass"),
                                         m_querySpec, parsedValue),
                      m_querySpec)]_vars

\* The aggregates of two stored rows of an aggregated query, one of them
\* stored twice, have been finalized.
C35_Witness ==
    /\ Aggregated(m_querySpec)
    /\ StoredRowsOutput
    /\ Len(m_rowRefs) = 2
    /\ Len(m_aggregates) = 2
    /\ \E i \in 1..2 : m_aggregates[i][1].m_count = 2

(***************************************************************************)
(* Claims about if(c,t,f) (SpecIf).                                        *)
(***************************************************************************)
\* The unified type of the branches of the if.
IfType == IfExpr(exprArgs).m_value.type

\* The condition of the if as a Boolean.
IfCondition ==
    Convert(Evaluate(InferType(exprArgs.c), context, parsedValue, <<>>), "Boolean").bval

\* The value of the branch the condition selects, converted to the unified
\* type.
IfBranchValue ==
    Convert(Evaluate(InferType(IF IfCondition THEN exprArgs.t ELSE exprArgs.f),
                     context, parsedValue, <<>>),
            IfType)

\* C36: for every result type, evaluating if(c,t,f) yields the value of t
\* converted to the unified type when c is true and the value of f
\* converted to the unified type when c is false.
C36_AsClaimed == exprResult # <<>> => exprResult[1] = IfBranchValue

\* The same of every if but the Integer one whose condition is false.
C36_ExceptIntegerElse ==
    (exprResult # <<>> /\ ~(IfType = "Integer" /\ ~IfCondition))
        => exprResult[1] = IfBranchValue

\* An Integer if whose condition is false and whose else branch is 3 has
\* been evaluated to 0.
C36_IntegerElse ==
    /\ exprResult = <<IntegerValue(0)>>
    /\ IfType = "Integer"
    /\ ~IfCondition
    /\ exprArgs.f = Expr("OpInt", <<NumberLiteral(3)>>)

(***************************************************************************)
(* Claims about the end-tag counter of the matcher (SpecMatch).            *)
(***************************************************************************)
\* The paths that are searching for their end tag.
SearchingForEndTag ==
    {i \in 1..Len(m_paths) : m_paths[i].m_matchState = "SearchingForEndTag"}

\* C37: after every tag event and every rollback, reset or commit, the
\* searchingForEndTagCnt of the matcher equals the number of paths in state
\* SearchingForEndTag, so it is never negative and is 0 whenever no path
\* waits for its end tag.
C37_AsClaimed == m_rowState.searchingForEndTagCnt = Cardinality(SearchingForEndTag)

\* A row has been committed while a NoData path was searching for its end
\* tag: no path searches for its end tag and the counter is 1.
C37_CountedAfterCommit ==
    /\ matchLog.commits > 0
    /\ SearchingForEndTag = {}
    /\ m_rowState.searchingForEndTagCnt = 1
    /\ \E i \in 1..Len(m_paths) : "NoData" \in m_paths[i].m_flags

(***************************************************************************)
(* Claims about references to columns (SpecRef).                           *)
(***************************************************************************)
\* In row r, every reference of the columns in `cs` was given the value of
\* the column it refers to in that same row, converted to its type.
UsesValueOfRow(r, cs) ==
    \A c \in cs :
        LET ref == RefOf(RefColumns(exprArgs.columns)[c])
        IN  ref # <<>> =>
               exprResult.used[r][c]
                  = <<Convert(exprResult.rows[r][ref[1].index + 1], ref[1].m_value.type)>>

\* The columns that refer to a column declared before them.
RefersBack ==
    {c \in 1..Len(exprArgs.columns) :
        LET ref == RefOf(RefColumns(exprArgs.columns)[c])
        IN  ref # <<>> /\ ref[1].index + 1 < c}

\* C38: when the expression of column A references column B by name, the
\* value A uses while a row is evaluated is B's value for that same row,
\* whether B is declared before or after A in the column list.
C38_AsClaimed ==
    \A r \in 1..Len(exprResult.rows) : UsesValueOfRow(r, 1..Len(exprArgs.columns))

\* The same of the references to a column declared before.
C38_DeclaredBefore == \A r \in 1..Len(exprResult.rows) : UsesValueOfRow(r, RefersBack)

\* A, declared before B, was given in the second row the value B had in the
\* first.
C38_ValueOfRowBefore ==
    /\ Len(exprResult.rows) >= 2
    /\ exprArgs.columns[1].name = "A"
    /\ exprArgs.values[1] # exprArgs.values[2]
    /\ exprResult.used[2][1]
          = <<Convert(exprResult.rows[1][2],
                      RefOf(RefColumns(exprArgs.columns)[1])[1].m_value.type)>>

(***************************************************************************)
(* Claims about the output of a sorted query (Spec).                       *)
(***************************************************************************)
\* The query has a sort and neither distinct nor aggregates nor first nor
\* top.
SortOnly ==
    /\ NeedsSorting(m_querySpec)
    /\ ~Distinct(m_querySpec)
    /\ m_querySpec.m_flags \cap {"FirstNRowsSpecified", "TopNRowsSpecified"} = {}

\* The times the row was handed to the row callback in the stored-values
\* pass, by the first n calls.
RECURSIVE TimesOutput(_, _)
TimesOutput(row, n) ==
    IF n = 0 THEN 0
    ELSE TimesOutput(row, n - 1)
         + (IF output[n].passType = "StoredValuesPass" /\ output[n].row = row
            THEN output[n].count ELSE 0)

\* The iterations of the main pass that passed the filters with the row.
PassedWith(row) ==
    {j \in 1..Len(trace) :
        trace[j].passType = "MainPass" /\ trace[j].passed /\ trace[j].row = row}

\* C39: for a query with a sort and neither distinct nor aggregates (and no
\* first/top), the rows output in the stored-values pass are, as a
\* multiset, exactly the rows of the iterations of the main pass that
\* passed all filters: one output row per iteration, duplicates included,
\* each with the values of its own iteration.
C39_AsClaimed ==
    (pc = "Done" /\ ~controlC /\ SortOnly) =>
        \A row \in {output[i].row : i \in 1..Len(output)}
                   \cup {trace[j].row : j \in 1..Len(trace)} :
            TimesOutput(row, Len(output)) = Cardinality(PassedWith(row))

\* The same of the queries without a join holds.
C39_WithoutJoin ==
    (pc = "Done" /\ ~controlC /\ SortOnly /\ "LeftSideOfJoin" \notin m_querySpec.m_flags) =>
        \A row \in {output[i].row : i \in 1..Len(output)}
                   \cup {trace[j].row : j \in 1..Len(trace)} :
            TimesOutput(row, Len(output)) = Cardinality(PassedWith(row))

\* A sorted join has been output: the row of the iteration that passed the
\* filter was not, and the row of the iteration after it, which did not
\* pass, was.
C39_RowOfLaterIteration ==
    /\ pc = "Done"
    /\ ~controlC
    /\ SortOnly
    /\ Len(trace) = 2
    /\ trace[1].passed
    /\ ~trace[2].passed
    /\ trace[1].row # trace[2].row
    /\ Len(output) = 1
    /\ output[1].row = trace[2].row

C40_GatherPass ==
    /\ pc = "Parse"
    /\ passIdx = 1
    /\ passes = <<"GatherDataPass", "MainPass">>
    /\ context.passType = "GatherDataPass"
    /\ "InvokeRowCallback" \notin m_flags

====
